---- MODULE Spec2Model ----
(***************************************************************************)
(* Conduit VS Code extension: route detector, collection inferencer, data  *)
(* sampler, ObjectId resolver and hybrid payload generator.                *)
(*                                                                         *)
(* JavaScript strings whose characters the code inspects (method names,    *)
(* router prefixes, route paths, path segments) are sequences of           *)
(* one-character strings; identifiers that the code only compares or uses  *)
(* as map keys are plain strings.  Confidences are IEEE doubles, written   *)
(* in thousandths (see FloatAdd).                                          *)
(*                                                                         *)
(* Each component has its own specification over its own variables; the    *)
(* variables of the other components stay at their idle values.            *)
(***************************************************************************)
EXTENDS Integers, Sequences, FiniteSets, Bags, TLC

VARIABLES
  \* ---- RouteDetector (src/conduit/src/routeDetection.ts) ----
  files,              \* the workspace's candidate route files (file system)
  routes,             \* RouteDetector.routes
  routerPrefixes,     \* RouteDetector.routerPrefixes
  controllerImports,  \* RouteDetector.controllerImports
  functionImports,    \* RouteDetector.functionImports
  scan,               \* one record per detectRoutes() caller
  inFile,             \* the detectRoutesInFile() call in progress
  cleanResults,       \* results of the latest undisturbed detectRoutes() calls
  started,            \* number of detector calls started so far
  \* ---- CollectionInferencer (src/unnamed/part_003) ----
  infer,              \* an inferCollectionName(route) call: route and result
  \* ---- HybridPayloadGenerator (src/unnamed/part_005) ----
  conf,               \* a calculateFieldConfidence(...) call: arguments, result
  hybrid,             \* a generateHybridPrediction(route, options) call
  \* ---- MongoConnector (src/unnamed/part_004) and the database ----
  mongo,              \* MongoConnector.client / db / isConnected
  db,                 \* the database: collection name -> its documents
  sampler,            \* a getSampleDocuments(collection, limit) call
  \* ---- ObjectIdResolver (src/unnamed/part_002) ----
  resolver,           \* a resolveObjectIdField(field, context, limit) call
  \* ---- calls checked on their own ----
  gate,               \* a data-sampler operation called while the connection
                      \* comes and goes
  extract,            \* an extractControllerContext(route) call
  approach,           \* a determineRecommendedApproach(...) call
  payload,            \* a generatePayload(prediction, options) call
  \* ---- SnapshotService (src/conduit/src/services/snapshotService.ts) ----
  snap,               \* the service, its timers and the events it handles
  \* ---- the backend's POST /api/snapshots (src/unnamed/part_001) ----
  backend,            \* the stored snapshots and the requests in progress
  \* ---- overlapping calls ----
  overlap,            \* two detectRoutes() calls on one detector
  connects            \* connect() calls on one MongoConnector

detVars == <<files, routes, routerPrefixes, controllerImports,
             functionImports, scan, inFile, cleanResults, started>>

mongoVars == <<mongo, db>>

serviceVars == <<payload, snap, backend, overlap, connects>>

callVars == <<gate, extract, approach, serviceVars>>

vars == <<detVars, callVars, infer, conf, hybrid, mongoVars, sampler, resolver>>

Null == "null"

\* a call that has not been made
Idle == [pc |-> "idle"]

\* the idle values of each component's variables
DetQuiet ==
  /\ files = <<>>
  /\ routes = <<>>
  /\ routerPrefixes = <<>>
  /\ controllerImports = <<>>
  /\ functionImports = <<>>
  /\ scan = <<>>
  /\ inFile = Idle
  /\ cleanResults = <<>>
  /\ started = [scans |-> 0, inFile |-> 0]

MongoQuiet ==
  /\ mongo = [client |-> FALSE, db |-> FALSE, isConnected |-> FALSE]
  /\ db = <<>>

InferQuiet == infer = Idle
ConfQuiet == conf = Idle
HybridQuiet == hybrid = Idle
SamplerQuiet == sampler = Idle
ResolverQuiet == resolver = Idle
ServicesQuiet ==
  /\ payload = Idle /\ snap = Idle /\ backend = Idle /\ overlap = Idle
  /\ connects = Idle

CallsQuiet ==
  gate = Idle /\ extract = Idle /\ approach = Idle /\ ServicesQuiet

(***************************************************************************)
(* String helpers (String.prototype methods on character sequences)        *)
(***************************************************************************)
LowerAlphabet == <<"a","b","c","d","e","f","g","h","i","j","k","l","m",
                   "n","o","p","q","r","s","t","u","v","w","x","y","z">>
UpperAlphabet == <<"A","B","C","D","E","F","G","H","I","J","K","L","M",
                   "N","O","P","Q","R","S","T","U","V","W","X","Y","Z">>

ToLowerChar(c) ==
  IF \E i \in 1..26 : UpperAlphabet[i] = c
    THEN LowerAlphabet[CHOOSE i \in 1..26 : UpperAlphabet[i] = c]
    ELSE c

ToUpperChar(c) ==
  IF \E i \in 1..26 : LowerAlphabet[i] = c
    THEN UpperAlphabet[CHOOSE i \in 1..26 : LowerAlphabet[i] = c]
    ELSE c

toLowerCase(s) == [i \in 1..Len(s) |-> ToLowerChar(s[i])]

toUpperCase(s) == [i \in 1..Len(s) |-> ToUpperChar(s[i])]

startsWith(s, p) == Len(s) >= Len(p) /\ SubSeq(s, 1, Len(p)) = p

endsWith(s, p) == Len(s) >= Len(p) /\ SubSeq(s, Len(s) - Len(p) + 1, Len(s)) = p

\* s.includes(p) for strings
includes(s, p) ==
  \E i \in 0..(Len(s) - Len(p)) : SubSeq(s, i + 1, i + Len(p)) = p

\* arr.includes(x) for arrays
arrayIncludes(arr, x) == \E i \in 1..Len(arr) : arr[i] = x

(***************************************************************************)
(* JavaScript Map                                                          *)
(***************************************************************************)
EmptyMap == [k \in {} |-> Null]

MapSet(m, k, v) == [x \in (DOMAIN m) \cup {k} |-> IF x = k THEN v ELSE m[x]]

MapHas(m, k) == k \in DOMAIN m

\* m.get(k), with `absent` standing for undefined
MapGet(m, k, absent) == IF k \in DOMAIN m THEN m[k] ELSE absent

(***************************************************************************)
(* Source files as the detector sees them: the import/require nodes and    *)
(* the CallExpression nodes of the parsed file, in traversal order.        *)
(***************************************************************************)
S_use     == <<"u","s","e">>
S_listen  == <<"l","i","s","t","e","n">>
S_get     == <<"g","e","t">>
S_post    == <<"p","o","s","t">>
S_put     == <<"p","u","t">>
S_delete  == <<"d","e","l","e","t","e">>
S_patch   == <<"p","a","t","c","h">>
S_head    == <<"h","e","a","d">>
S_options == <<"o","p","t","i","o","n","s">>
S_slash   == <<"/">>

\* httpMethods in detectRoute
httpMethods == <<S_get, S_post, S_put, S_delete, S_patch, S_head, S_options>>

StringLiteral(v)  == [type |-> "StringLiteral", value |-> v]
Identifier(n)     == [type |-> "Identifier", name |-> n]
MemberExpr(o, p)  == [type |-> "MemberExpression", objectType |-> "Identifier",
                      object |-> o, propertyType |-> "Identifier", property |-> p]
OtherNode         == [type |-> "Other"]

\* receiver.property(arguments...) at a source line
Call(recv, prop, args, line) ==
  [calleeType |-> "MemberExpression", objectType |-> "Identifier",
   object |-> recv, propertyType |-> "Identifier", property |-> prop,
   arguments |-> args, line |-> line]

\* a resolved file path: base name, whether it is an index file, extension
FsPath(base, isIndex, ext) == [base |-> base, index |-> isIndex, ext |-> ext]

\* no path (null / undefined)
NoPath == FsPath("", FALSE, "")

\* the files that exist on disk next to the route files (fs.existsSync)
ExistingPaths ==
  { FsPath("/ws/controllers/userController", FALSE, ".js"),
    FsPath("/ws/controllers/auth", TRUE, ".ts"),
    FsPath("/ws/routes/users", FALSE, ".js") }

\* an import source: relative or not, its resolved base and its extension
ImportPath(rel, base, ext) == [relative |-> rel, base |-> base, ext |-> ext]

ImportDecl(src, specs) == [node |-> "ImportDeclaration", source |-> src,
                           specifiers |-> specs]
RequireDecl(id, src)   == [node |-> "VariableDeclarator", id |-> id,
                           source |-> src]
Specifier(t, local)    == [type |-> t, local |-> local]

extensions == <<".js", ".ts", ".jsx", ".tsx">>

\* RouteDetector.resolveControllerPath
resolveControllerPath(importPath) ==
  IF ~importPath.relative THEN NoPath
  ELSE IF importPath.ext # ""
    THEN IF FsPath(importPath.base, FALSE, importPath.ext) \in ExistingPaths
           THEN FsPath(importPath.base, FALSE, importPath.ext)
           ELSE NoPath
  ELSE IF \E i \in 1..Len(extensions) :
            FsPath(importPath.base, FALSE, extensions[i]) \in ExistingPaths
    THEN LET i == CHOOSE j \in 1..Len(extensions) :
                    /\ FsPath(importPath.base, FALSE, extensions[j]) \in ExistingPaths
                    /\ \A k \in 1..(j - 1) :
                         FsPath(importPath.base, FALSE, extensions[k]) \notin ExistingPaths
         IN FsPath(importPath.base, FALSE, extensions[i])
  ELSE IF \E i \in 1..Len(extensions) :
            FsPath(importPath.base, TRUE, extensions[i]) \in ExistingPaths
    THEN LET i == CHOOSE j \in 1..Len(extensions) :
                    /\ FsPath(importPath.base, TRUE, extensions[j]) \in ExistingPaths
                    /\ \A k \in 1..(j - 1) :
                         FsPath(importPath.base, TRUE, extensions[k]) \notin ExistingPaths
         IN FsPath(importPath.base, TRUE, extensions[i])
  ELSE NoPath

(***************************************************************************)
(* RouteDetector: the per-file passes.  st is the detector's state         *)
(* [routes, routerPrefixes, controllerImports, functionImports].           *)
(***************************************************************************)
DetState(r, p, c, f) == [routes |-> r, routerPrefixes |-> p,
                         controllerImports |-> c, functionImports |-> f]

ClearedState == DetState(<<>>, EmptyMap, EmptyMap, EmptyMap)

RECURSIVE ImportSpecifiers(_, _, _, _)
ImportSpecifiers(st, specs, i, resolvedPath) ==
  IF i > Len(specs) THEN st
  ELSE LET spec == specs[i]
           st1 == IF spec.type \in {"ImportDefaultSpecifier", "ImportNamespaceSpecifier"}
                    THEN [st EXCEPT !.controllerImports =
                                      MapSet(@, spec.local, resolvedPath)]
                  ELSE IF spec.type = "ImportSpecifier"
                    THEN [st EXCEPT !.functionImports =
                                      MapSet(@, spec.local, resolvedPath)]
                  ELSE st
       IN ImportSpecifiers(st1, specs, i + 1, resolvedPath)

\* RouteDetector.detectImports
detectImports(st, node) ==
  LET resolvedPath == resolveControllerPath(node.source)
  IN IF resolvedPath # NoPath
       THEN ImportSpecifiers(st, node.specifiers, 1, resolvedPath)
       ELSE st

\* RouteDetector.detectRequires
detectRequires(st, node) ==
  LET resolvedPath == resolveControllerPath(node.source)
  IN IF resolvedPath # NoPath
       THEN [st EXCEPT !.controllerImports = MapSet(@, node.id, resolvedPath)]
       ELSE st

\* RouteDetector.detectRouterPrefix
detectRouterPrefix(st, node) ==
  IF /\ node.calleeType = "MemberExpression"
     /\ node.propertyType = "Identifier"
     /\ node.property = S_use
     /\ Len(node.arguments) >= 2
     /\ node.arguments[1].type = "StringLiteral"
     /\ node.arguments[2].type = "Identifier"
    THEN [st EXCEPT !.routerPrefixes =
                      MapSet(@, node.arguments[2].name, node.arguments[1].value)]
    ELSE st

\* RouteDetector.combinePaths
combinePaths(prefix, path) ==
  LET cleanPrefix == IF endsWith(prefix, S_slash)
                       THEN SubSeq(prefix, 1, Len(prefix) - 1) ELSE prefix
      cleanPath   == IF startsWith(path, S_slash) THEN path ELSE S_slash \o path
  IN cleanPrefix \o cleanPath

\* names of the identifier arguments strictly between the path and the handler
RECURSIVE Middlewares(_, _)
Middlewares(args, i) ==
  IF i >= Len(args) THEN <<>>
  ELSE (IF args[i].type = "Identifier" THEN <<args[i].name>> ELSE <<>>)
         \o Middlewares(args, i + 1)

routeMethod_NotUpperCased(method) == method

\* the method of a pushed route: method.toUpperCase()
routeMethod(method) == toUpperCase(method)

\* RouteDetector.detectRoute: the state after the node, and whether the
\* visitor threw (pathArg undefined: the type guard reads .type of undefined)
detectRoute(st, node, filePath) ==
  IF node.calleeType # "MemberExpression" \/ node.propertyType # "Identifier"
    THEN [st |-> st, threw |-> FALSE]
  ELSE LET method == toLowerCase(node.property) IN
  IF ~arrayIncludes(httpMethods, method)
    THEN [st |-> st, threw |-> FALSE]
  ELSE IF Len(node.arguments) = 0
    THEN [st |-> st, threw |-> TRUE]
  ELSE IF node.arguments[1].type # "StringLiteral"
    THEN [st |-> st, threw |-> FALSE]
  ELSE
    LET routePath == node.arguments[1].value
        \* undefined and "" are both falsy: <<>> stands for either
        prefix    == IF node.objectType = "Identifier"
                       THEN MapGet(st.routerPrefixes, node.object, <<>>) ELSE <<>>
        fullPath  == IF prefix # <<>>
                       THEN combinePaths(prefix, routePath) ELSE routePath
        n         == Len(node.arguments)
        last      == node.arguments[n]
        lastIsId  == n >= 2 /\ last.type = "Identifier"
        lastIsMem == /\ n >= 2 /\ last.type = "MemberExpression"
                     /\ last.objectType = "Identifier"
                     /\ last.propertyType = "Identifier"
        handler   == IF lastIsId THEN <<last.name>>
                     ELSE IF lastIsMem THEN <<last.object, ".", last.property>>
                     ELSE <<"anonymous">>
        resolved  == IF lastIsId THEN MapGet(st.functionImports, last.name, NoPath)
                     ELSE IF lastIsMem
                       THEN MapGet(st.controllerImports, last.object, NoPath)
                     ELSE NoPath
        route     == [method             |-> routeMethod(method),
                      path               |-> fullPath,
                      filePath           |-> filePath,
                      line               |-> node.line,
                      middlewares        |-> Middlewares(node.arguments, 2),
                      handler            |-> handler,
                      controllerFilePath |-> resolved,
                      controllerFunction |->
                        IF resolved = NoPath THEN Null
                        ELSE IF lastIsId THEN last.name ELSE last.property]
    IN [st |-> [st EXCEPT !.routes = Append(@, route)], threw |-> FALSE]

\* first traversal of parseFileForRoutes: ImportDeclaration / VariableDeclarator
RECURSIVE ImportPass(_, _, _)
ImportPass(st, nodes, i) ==
  IF i > Len(nodes) THEN st
  ELSE ImportPass(IF nodes[i].node = "ImportDeclaration"
                    THEN detectImports(st, nodes[i])
                    ELSE detectRequires(st, nodes[i]),
                  nodes, i + 1)

\* second traversal: router prefixes
RECURSIVE PrefixPass(_, _, _)
PrefixPass(st, calls, i) ==
  IF i > Len(calls) THEN st
  ELSE PrefixPass(detectRouterPrefix(st, calls[i]), calls, i + 1)

\* third traversal: routes; an exception ends the traversal where it is thrown
RECURSIVE RoutePass(_, _, _, _)
RoutePass(st, calls, i, filePath) ==
  IF i > Len(calls) THEN st
  ELSE LET r == detectRoute(st, calls[i], filePath)
       IN IF r.threw THEN r.st ELSE RoutePass(r.st, calls, i + 1, filePath)

\* RouteDetector.parseFileForRoutes (never throws: the catch logs and returns)
parseFileForRoutes(st, file) ==
  IF ~file.readable \/ ~file.parses THEN st
  ELSE LET s0 == [st EXCEPT !.controllerImports = EmptyMap,
                            !.functionImports = EmptyMap]
           s1 == ImportPass(s0, file.imports, 1)
           s2 == PrefixPass(s1, file.calls, 1)
       IN RoutePass(s2, file.calls, 1, file.path)

\* detectRoutes() run to completion without anything else touching the detector
RECURSIVE ParseAll(_, _, _)
ParseAll(st, fs, i) ==
  IF i > Len(fs) THEN st ELSE ParseAll(parseFileForRoutes(st, fs[i]), fs, i + 1)

UndisturbedScan(fs) == ParseAll(ClearedState, fs, 1).routes

(***************************************************************************)
(* The workspace: four candidate files, in the order findRouteFiles lists  *)
(* them.  One app.use prefix, one route path and one method name vary.     *)
(***************************************************************************)
S_api          == <<"/","a","p","i">>
S_apiSlash     == <<"/","a","p","i","/">>
S_apiBare      == <<"a","p","i">>
S_users        == <<"/","u","s","e","r","s">>
S_usersBare    == <<"u","s","e","r","s">>
S_health       == <<"/","h","e","a","l","t","h">>
S_login        == <<"/","l","o","g","i","n">>
S_orders       == <<"/","o","r","d","e","r","s">>
S_late         == <<"/","l","a","t","e">>
S_GET          == <<"G","E","T">>
S_Delete       == <<"D","e","l","e","t","e">>
S_pAtCh        == <<"p","A","t","C","h">>

\* <<prefix literal of app.use, path literal, method name>> as written in
\* the source files
SourceChoices ==
  { <<S_api, S_users, S_get>>,
    <<S_api, S_usersBare, S_GET>>,
    <<S_apiSlash, S_users, S_Delete>>,
    <<S_apiSlash, S_usersBare, S_pAtCh>>,
    <<S_apiBare, S_users, S_get>>,
    <<S_slash, S_users, S_pAtCh>>,
    <<S_slash, S_slash, S_GET>>,
    << <<>>, S_users, S_Delete>>,
    << <<>>, S_usersBare, S_get>>,
    <<S_api, S_users, S_listen>> }

WorkspaceOf(pfx, pth, verb) ==
  << [path |-> "/ws/app.js", readable |-> TRUE, parses |-> TRUE,
      imports |->
        << RequireDecl("express", ImportPath(FALSE, "express", "")),
           RequireDecl("userRoutes", ImportPath(TRUE, "/ws/routes/users", "")) >>,
      calls |->
        << Call("app", S_use, <<StringLiteral(pfx), Identifier("router")>>, 5),
           Call("app", S_get, <<StringLiteral(S_health), Identifier("health")>>, 6),
           Call("app", S_listen, <<OtherNode>>, 9) >>],
     [path |-> "/ws/routes/users.js", readable |-> TRUE, parses |-> TRUE,
      imports |->
        << ImportDecl(ImportPath(TRUE, "/ws/controllers/userController", ""),
                      <<Specifier("ImportDefaultSpecifier", "userController")>>),
           ImportDecl(ImportPath(TRUE, "/ws/controllers/auth", ""),
                      <<Specifier("ImportSpecifier", "login")>>) >>,
      calls |->
        << Call("router", verb,
                <<StringLiteral(pth), Identifier("auth"),
                  MemberExpr("userController", "createUser")>>, 4),
           Call("router", S_post, <<StringLiteral(S_login), Identifier("login")>>, 5) >>],
     [path |-> "/ws/routes/broken.js", readable |-> TRUE, parses |-> FALSE,
      imports |-> <<>>, calls |-> <<>>],
     [path |-> "/ws/routes/orders.js", readable |-> TRUE, parses |-> TRUE,
      imports |-> <<>>,
      calls |->
        << Call("api", S_use, <<StringLiteral(S_late), Identifier("app")>>, 2),
           Call("orders", S_get, <<StringLiteral(S_orders), Identifier("listOrders")>>, 3),
           Call("cache", S_delete, <<>>, 4),
           Call("orders", S_post, <<StringLiteral(S_orders), Identifier("createOrder")>>, 5) >>] >>

Workspaces == { WorkspaceOf(ch[1], ch[2], ch[3]) : ch \in SourceChoices }

(***************************************************************************)
(* RouteDetector: detectRoutes() and detectRoutesInFile() as processes.    *)
(* Each action runs from one await to the next.                            *)
(***************************************************************************)
Callers == {1}

\* bounds on the number of calls explored
MaxScans == 2
MaxInFileCalls == 1

DetectorState == DetState(routes, routerPrefixes, controllerImports, functionImports)

SetDetector(st) ==
  /\ routes' = st.routes
  /\ routerPrefixes' = st.routerPrefixes
  /\ controllerImports' = st.controllerImports
  /\ functionImports' = st.functionImports

Scanning(c) == scan[c].pc \in {"find", "loop"}

\* midScanInFile: a detectRoutesInFile call began while this scan was suspended
\* in its file loop; otherOverlap: any other overlap with another detector call
IdleScan == [pc |-> "idle", idx |-> 0, result |-> <<>>,
             midScanInFile |-> FALSE, otherOverlap |-> FALSE]

\* midScan: the call began while a scan was suspended in its file loop
IdleInFile == [pc |-> "idle", file |-> 0, saved |-> ClearedState,
               result |-> <<>>, midScan |-> FALSE]

\* a detectRoutesInFile call begins: note it in every scan in progress
OverlapInFile(sc) ==
  [c \in Callers |-> IF sc[c].pc = "loop"
                       THEN [sc[c] EXCEPT !.midScanInFile = TRUE]
                     ELSE IF sc[c].pc = "find"
                       THEN [sc[c] EXCEPT !.otherOverlap = TRUE]
                     ELSE sc[c]]

\* a detectRoutes call begins: note it in every scan in progress
OverlapScan(sc) ==
  [c \in Callers |-> IF sc[c].pc \in {"find", "loop"}
                       THEN [sc[c] EXCEPT !.otherOverlap = TRUE] ELSE sc[c]]

Undisturbed(c) == ~scan[c].midScanInFile /\ ~scan[c].otherOverlap

detectRoutesReset_KeepPrefixes(st) ==
  [st EXCEPT !.routes = <<>>, !.controllerImports = EmptyMap,
             !.functionImports = EmptyMap]

\* detectRoutes, lines 38-41: a new routes array, the three maps cleared
detectRoutesReset(st) == ClearedState

\* detectRoutes up to the first await (inside findRouteFiles)
DetectRoutesStart(c) ==
  /\ scan[c].pc \in {"idle", "done"}
  /\ started.scans < MaxScans
  /\ started' = [started EXCEPT !.scans = @ + 1]
  /\ SetDetector(detectRoutesReset(DetectorState))
  /\ scan' = [OverlapScan(scan) EXCEPT ![c] =
                [pc |-> "find", idx |-> 0, result |-> <<>>,
                 midScanInFile |-> FALSE,
                 otherOverlap |-> \/ inFile.pc = "await"
                                  \/ \E d \in Callers \ {c} : Scanning(d)]]
  /\ UNCHANGED <<files, inFile, cleanResults>>

\* the value detectRoutes returns (this.routes), recorded with its history
DetectRoutesReturn(c) ==
  /\ scan' = [scan EXCEPT ![c].pc = "done", ![c].result = routes]
  /\ cleanResults' =
       IF Undisturbed(c)
         THEN (IF Len(cleanResults) = 2 THEN Tail(cleanResults) ELSE cleanResults)
                \o <<routes>>
         ELSE <<>>
  /\ UNCHANGED <<files, routes, routerPrefixes, controllerImports,
                 functionImports, inFile, started>>

\* findRouteFiles has resolved: the loop parses the first file and awaits
DetectRoutesFilesFound(c) ==
  /\ scan[c].pc = "find"
  /\ IF Len(files) = 0
       THEN DetectRoutesReturn(c)
       ELSE /\ SetDetector(parseFileForRoutes(DetectorState, files[1]))
            /\ scan' = [scan EXCEPT ![c].pc = "loop", ![c].idx = 1]
            /\ UNCHANGED <<files, inFile, cleanResults, started>>

\* the await on parseFileForRoutes resumes: next file, or return this.routes
DetectRoutesResume(c) ==
  /\ scan[c].pc = "loop"
  /\ IF scan[c].idx < Len(files)
       THEN /\ SetDetector(parseFileForRoutes(DetectorState, files[scan[c].idx + 1]))
            /\ scan' = [scan EXCEPT ![c].idx = @ + 1]
            /\ UNCHANGED <<files, inFile, cleanResults, started>>
       ELSE DetectRoutesReturn(c)

\* detectRoutesInFile up to its await: save, clear, parse the file
DetectRoutesInFileStart(f) ==
  /\ inFile.pc \in {"idle", "done"}
  /\ started.inFile < MaxInFileCalls
  /\ started' = [started EXCEPT !.inFile = @ + 1]
  /\ SetDetector(parseFileForRoutes(ClearedState, files[f]))
  /\ inFile' = [pc |-> "await", file |-> f, saved |-> DetectorState,
                result |-> <<>>,
                midScan |-> \E c \in Callers : scan[c].pc = "loop"]
  /\ scan' = OverlapInFile(scan)
  /\ UNCHANGED <<files, cleanResults>>

\* the await resumes: return [...this.routes], then the finally block restores
DetectRoutesInFileResume ==
  /\ inFile.pc = "await"
  /\ inFile' = [inFile EXCEPT !.pc = "done", !.result = routes]
  /\ SetDetector(inFile.saved)
  /\ UNCHANGED <<files, scan, cleanResults, started>>

\* the variables the route detector never touches
nonDetVars == <<callVars, infer, conf, hybrid, mongoVars, sampler, resolver>>

DetInit ==
  /\ files \in Workspaces
  /\ routes = <<>>
  /\ routerPrefixes = EmptyMap
  /\ controllerImports = EmptyMap
  /\ functionImports = EmptyMap
  /\ scan = [c \in Callers |-> IdleScan]
  /\ inFile = IdleInFile
  /\ cleanResults = <<>>
  /\ started = [scans |-> 0, inFile |-> 0]
  /\ InferQuiet /\ ConfQuiet /\ HybridQuiet /\ MongoQuiet
  /\ SamplerQuiet /\ ResolverQuiet /\ CallsQuiet

DetNext ==
  \/ \E c \in Callers : DetectRoutesStart(c) /\ UNCHANGED nonDetVars
  \/ \E c \in Callers : DetectRoutesFilesFound(c) /\ UNCHANGED nonDetVars
  \/ \E c \in Callers : DetectRoutesResume(c) /\ UNCHANGED nonDetVars
  \/ \E f \in 1..Len(files) :
       DetectRoutesInFileStart(f) /\ UNCHANGED nonDetVars
  \/ DetectRoutesInFileResume /\ UNCHANGED nonDetVars

Init == DetInit

Next == DetNext

Spec == Init /\ [][Next]_vars

(***************************************************************************)
(* RouteDetector: properties                                               *)
(***************************************************************************)
SeqToSet(q) == { q[i] : i \in 1..Len(q) }

\* every route handed to a caller so far, or held in this.routes
EmittedRoutes ==
  SeqToSet(routes) \cup SeqToSet(inFile.result)
    \cup UNION { SeqToSet(scan[c].result) : c \in Callers }

\* C1: a detectRoutesInFile(f) call that runs while a scan is suspended in
\* its file loop does not change what the scan returns (the list an
\* undisturbed scan of the same files returns), and the list it returns
\* itself holds only routes of file f.
C1_InFileCallLeavesScanUntouched ==
  /\ \A c \in Callers :
       (scan[c].pc = "done" /\ ~scan[c].otherOverlap)
         => scan[c].result = UndisturbedScan(files)
  /\ (inFile.pc = "done" /\ inFile.midScan)
       => \A i \in 1..Len(inFile.result) :
            inFile.result[i].filePath = files[inFile.file].path

\* C2: two consecutive detectRoutes() calls that nothing overlaps return
\* the same route list, in content and in order.
C2_RepeatedScanSameResult ==
  Len(cleanResults) = 2 => cleanResults[1] = cleanResults[2]

C2_Witness ==
  /\ Len(cleanResults) = 2
  /\ Len(cleanResults[2]) >= 3
  /\ started.inFile >= 1

\* C3: every emitted route's path begins with exactly one "/".
C3_PathBeginsWithOneSlash ==
  \A r \in EmittedRoutes :
    startsWith(r.path, S_slash) /\ ~startsWith(r.path, <<"/", "/">>)

CanonicalMethods ==
  { <<"G","E","T">>, <<"P","O","S","T">>, <<"P","U","T">>,
    <<"D","E","L","E","T","E">>, <<"P","A","T","C","H">>,
    <<"H","E","A","D">>, <<"O","P","T","I","O","N","S">> }

\* C4: every emitted route's method is one of the seven upper-case verbs,
\* whatever the letter case of the method name in the source call.
C4_MethodIsCanonicalVerb ==
  \A r \in EmittedRoutes : r.method \in CanonicalMethods

C4_Witness ==
  /\ files[2].calls[1].property = S_pAtCh
  /\ \E c \in Callers :
       /\ scan[c].pc = "done"
       /\ \E r \in SeqToSet(scan[c].result) :
            r.method = <<"P","A","T","C","H">> /\ r.line = 4

(***************************************************************************)
(* More String.prototype / Array.prototype helpers                         *)
(***************************************************************************)
\* the characters of a string literal
Chars(s) == [i \in 1..Len(s) |-> SubSeq(s, i, i)]

RECURSIVE SplitAt(_, _, _, _)
SplitAt(s, seps, i, cur) ==
  IF i > Len(s) THEN <<cur>>
  ELSE IF s[i] \in seps THEN <<cur>> \o SplitAt(s, seps, i + 1, <<>>)
  ELSE SplitAt(s, seps, i + 1, Append(cur, s[i]))

\* s.split(sep), sep one of the characters in seps
split(s, seps) == SplitAt(s, seps, 1, <<>>)

\* s with its last n characters removed
DropLast(s, n) == SubSeq(s, 1, Len(s) - n)

\* insertion into a Set that remembers insertion order
SetAdd(q, x) == IF arrayIncludes(q, x) THEN q ELSE Append(q, x)

RECURSIVE SetAddAll(_, _, _)
SetAddAll(q, xs, i) ==
  IF i > Len(xs) THEN q ELSE SetAddAll(SetAdd(q, xs[i]), xs, i + 1)

\* the element of a one-element set: TheOne({ e(v) : v \in {x} }) is e(x),
\* with x computed once
TheOne(S) == CHOOSE v \in S : TRUE

Min(a, b) == IF a < b THEN a ELSE b
Max(a, b) == IF a > b THEN a ELSE b

(***************************************************************************)
(* Confidence arithmetic.  A confidence is an IEEE double; it is written   *)
(* here in thousandths, and a double that lies just below or just above    *)
(* the decimal k/10 is written 100k - 1 or 100k + 1.  FloatAdd is double   *)
(* addition on the values the confidence formulas reach: exact except for  *)
(* the sums listed, which round away from the decimal result.              *)
(***************************************************************************)
FloatAddRounded ==
  { <<700, 100, 799>>,   \* 0.7 + 0.1 = 0.7999999999999999
    <<700, 200, 899>>,   \* 0.7 + 0.2 = 0.8999999999999999
    <<799, 200, 1000>>,  \* 0.7999999999999999 + 0.2 = 1.0
    <<1100, 100, 1201>>, \* 1.1 + 0.1 = 1.2000000000000002
    <<1200, -100, 1099>>,
    <<1201, -100, 1100>>,
    <<1400, -100, 1299>>,
    <<1401, -100, 1300>>,
    <<100, -300, -199>>, \* 0.1 - 0.3 = -0.19999999999999998
    <<200, -300, -99>>,
    <<400, -300, 101>>,  \* 0.4 - 0.3 = 0.10000000000000003
    <<700, -300, 399>>,  \* 0.7 - 0.3 = 0.39999999999999997
    <<900, -300, 601>> } \* 0.9 - 0.3 = 0.6000000000000001

FloatAdd(a, b) ==
  IF \E t \in FloatAddRounded : t[1] = a /\ t[2] = b
    THEN (CHOOSE t \in FloatAddRounded : t[1] = a /\ t[2] = b)[3]
    ELSE a + b

(***************************************************************************)
(* CollectionInferencer (src/unnamed/part_003)                             *)
(***************************************************************************)
\* own keys of SPECIAL_CASES
SPECIAL_CASES ==
  [k \in { Chars("auth"), Chars("login"), Chars("register"), Chars("signup"),
           Chars("signin"), Chars("logout"), Chars("profile"), Chars("me"),
           Chars("account"), Chars("session") } |->
     CASE k = Chars("logout")  -> <<Chars("users"), Chars("sessions")>>
       [] k = Chars("profile") -> <<Chars("users"), Chars("profiles")>>
       [] k = Chars("me")      -> <<Chars("users"), Chars("profiles")>>
       [] k = Chars("session") -> <<Chars("sessions"), Chars("users")>>
       [] OTHER                -> <<Chars("users"), Chars("accounts")>>]

\* lower-case property names every object literal inherits: SPECIAL_CASES[k]
\* is truthy for them, but it is not an array
InheritedKeys == { Chars("constructor"), Chars("__proto__") }

IGNORED_SEGMENTS ==
  <<Chars("api"), Chars("v1"), Chars("v2"), Chars("v3"), Chars("admin"),
    Chars("public"), Chars("private"), Chars("endpoints")>>

commonResources ==
  <<Chars("users"), Chars("user"), Chars("products"), Chars("product"),
    Chars("orders"), Chars("order"), Chars("items"), Chars("item"),
    Chars("posts"), Chars("post"), Chars("comments"), Chars("comment"),
    Chars("categories"), Chars("category"), Chars("tags"), Chars("tag"),
    Chars("files"), Chars("file")>>

authKeywords ==
  <<Chars("login"), Chars("logout"), Chars("auth"), Chars("signin"),
    Chars("signup"), Chars("register"), Chars("token"), Chars("session")>>

genericNames ==
  <<Chars("index"), Chars("routes"), Chars("route"), Chars("router"),
    Chars("app"), Chars("server"), Chars("api")>>

Inference(name, confidence, reasoning, alternatives) ==
  [collectionName |-> name, confidence |-> confidence,
   reasoning |-> reasoning, alternativeNames |-> alternatives]

pluralizeToSingular(word) ==
  IF endsWith(word, Chars("ies")) THEN DropLast(word, 3) \o Chars("y")
  ELSE IF endsWith(word, Chars("ves")) THEN DropLast(word, 3) \o Chars("f")
  ELSE IF endsWith(word, Chars("s")) THEN DropLast(word, 1)
  ELSE word

pluralizeToPlural(word) ==
  IF endsWith(word, Chars("y")) THEN DropLast(word, 1) \o Chars("ies")
  ELSE IF endsWith(word, Chars("f")) THEN DropLast(word, 1) \o Chars("ves")
  ELSE word \o Chars("s")

isPlural(word) ==
  \/ endsWith(word, Chars("s"))
  \/ endsWith(word, Chars("ies"))
  \/ endsWith(word, Chars("ves"))

KeepSegment(segment) ==
  /\ segment # <<>>
  /\ ~startsWith(segment, Chars(":"))
  /\ ~startsWith(segment, Chars("*"))
  /\ ~arrayIncludes(IGNORED_SEGMENTS, toLowerCase(segment))

parseRoutePath(path) ==
  LET kept == SelectSeq(split(path, {"/"}), KeepSegment)
  IN  [i \in 1..Len(kept) |-> toLowerCase(kept[i])]

clampSegmentConfidence_NoCap(confidence) == confidence

\* calculateSegmentConfidence, line 332: Math.min(confidence, 1.0)
clampSegmentConfidence(confidence) == Min(confidence, 1000)

calculateSegmentConfidence(segment, method) ==
  LET c0 == 500
      c1 == IF arrayIncludes(commonResources, segment)
              THEN FloatAdd(c0, 300) ELSE c0
      c2 == IF isPlural(segment) THEN FloatAdd(c1, 200) ELSE c1
      c3 == IF method \in { Chars("GET"), Chars("POST"), Chars("PUT"),
                            Chars("PATCH"), Chars("DELETE") }
              THEN FloatAdd(c2, 100) ELSE c2
  IN  clampSegmentConfidence(c3)

isAuthRoute(route) ==
  LET pathLower == toLowerCase(route.path)
  IN  \/ \E i \in 1..Len(authKeywords) : includes(pathLower, authKeywords[i])
      \/ route.method = Chars("POST") /\ includes(pathLower, Chars("password"))

inferFromPathSegments(segments, route) ==
  IF Len(segments) = 0
    THEN Inference(Chars("documents"), 100, "path-segment",
                   <<Chars("items"), Chars("data")>>)
    ELSE LET resourceSegment == segments[1]
             collectionName == pluralizeToSingular(resourceSegment)
             NotTheName(name) == name # collectionName
         IN  Inference(collectionName,
                       calculateSegmentConfidence(resourceSegment, route.method),
                       "path-segment",
                       SelectSeq(<<resourceSegment,
                                   pluralizeToPlural(collectionName)>>,
                                 NotTheName))

\* the first segment for which SPECIAL_CASES[segment] is truthy, or 0
FirstSpecialSegment(segments) ==
  LET hits == { i \in 1..Len(segments) :
                  segments[i] \in (DOMAIN SPECIAL_CASES) \cup InheritedKeys }
  IN  IF hits = {} THEN 0 ELSE CHOOSE i \in hits : \A j \in hits : i <= j

\* an inherited property is not an array: potentialCollections.slice throws
SpecialCaseThrows(segments) ==
  /\ FirstSpecialSegment(segments) # 0
  /\ segments[FirstSpecialSegment(segments)] \in InheritedKeys

inferFromSpecialCases(segments, route) ==
  IF FirstSpecialSegment(segments) # 0
    THEN LET potentialCollections ==
               SPECIAL_CASES[segments[FirstSpecialSegment(segments)]]
         IN  Inference(potentialCollections[1], 800, "special-case",
                       Tail(potentialCollections))
  ELSE IF isAuthRoute(route)
    THEN Inference(Chars("users"), 700, "special-case",
                   <<Chars("accounts"), Chars("profiles")>>)
  ELSE Inference(Chars("unknown"), 0, "special-case", <<>>)

inferFromRouteMethod(segments, route) ==
  IF Len(segments) = 0
    THEN Inference(Chars("unknown"), 0, "method-pattern", <<>>)
    ELSE LET resourceSegment == segments[1]
             hasIdParam == \/ includes(route.path, Chars(":id"))
                           \/ includes(route.path, Chars("/:"))
             c0 == 300
             c1 == IF hasIdParam /\ route.method \in
                        { Chars("GET"), Chars("PUT"), Chars("PATCH"),
                          Chars("DELETE") }
                     THEN FloatAdd(c0, 200) ELSE c0
             c2 == IF route.method = Chars("POST") /\ ~hasIdParam
                     THEN FloatAdd(c1, 200) ELSE c1
         IN  Inference(pluralizeToSingular(resourceSegment), c2,
                       "method-pattern", <<resourceSegment>>)

\* part.replace(/\.(js|ts)$/, "")
StripScriptExtension(name) ==
  IF endsWith(name, Chars(".js")) \/ endsWith(name, Chars(".ts"))
    THEN DropLast(name, 3) ELSE name

CollectionLikePart(part) ==
  /\ ~includes(part, Chars("."))
  /\ ~arrayIncludes(IGNORED_SEGMENTS, part)
  /\ Len(part) > 2

inferFromFileName(filePath) ==
  LET parts == split(filePath, {"/", "\\"})
      fileName == StripScriptExtension(parts[Len(parts)])
      cleanFileName == toLowerCase(fileName)
      pathParts == split(toLowerCase(filePath), {"/", "\\"})
      potentialCollections == SelectSeq(pathParts, CollectionLikePart)
  IN  IF arrayIncludes(genericNames, cleanFileName)
        THEN Inference(Chars("unknown"), 0, "filename", <<>>)
      ELSE IF Len(potentialCollections) > 0
        THEN Inference(
               pluralizeToSingular(potentialCollections[Len(potentialCollections)]),
               400, "filename", DropLast(potentialCollections, 1))
      ELSE Inference(Chars("unknown"), 0, "filename", <<>>)

\* the four strategies, in the order inferCollectionName runs them
Strategies(route) ==
  LET pathSegments == parseRoutePath(route.path)
  IN  <<inferFromPathSegments(pathSegments, route),
        inferFromSpecialCases(pathSegments, route),
        inferFromRouteMethod(pathSegments, route),
        inferFromFileName(route.filePath)>>

betterThan_LowerWins(current, best) == current.confidence < best.confidence

\* the reduce callback, line 64
betterThan(current, best) == current.confidence > best.confidence

RECURSIVE ReduceBest(_, _, _)
ReduceBest(inferences, i, best) ==
  IF i > Len(inferences) THEN best
  ELSE ReduceBest(inferences, i + 1,
                  IF betterThan(inferences[i], best) THEN inferences[i] ELSE best)

RECURSIVE CollectAlternatives(_, _, _, _)
CollectAlternatives(inferences, i, bestName, acc) ==
  IF i > Len(inferences) THEN acc
  ELSE LET withName == IF inferences[i].collectionName # bestName
                         THEN SetAdd(acc, inferences[i].collectionName)
                         ELSE acc
       IN  CollectAlternatives(inferences, i + 1, bestName,
             SetAddAll(withName, inferences[i].alternativeNames, 1))

\* the value inferCollectionName returns, or the TypeError it throws
inferCollectionName(route) ==
  IF SpecialCaseThrows(parseRoutePath(route.path))
    THEN [threw |-> TRUE]
    ELSE LET inferences == Strategies(route)
             bestInference == ReduceBest(inferences, 2, inferences[1])
             allAlternatives ==
               CollectAlternatives(inferences, 1,
                                   bestInference.collectionName, <<>>)
         IN  [threw |-> FALSE,
              collectionName |-> bestInference.collectionName,
              confidence |-> bestInference.confidence,
              reasoning |-> bestInference.reasoning,
              alternativeNames |->
                SubSeq(allAlternatives, 1, Min(5, Len(allAlternatives)))]

\* routes handed to the inferencer: path x method x file
InferPaths ==
  { Chars("/api/v1/products/:id"), Chars("/users"), Chars("/api/categories/:id"),
    Chars("/shelves"), Chars("/login"), Chars("/api/auth/token"), Chars("/"),
    Chars("/api/v1"), Chars("/password/reset"), Chars("/orders/:orderId/items"),
    Chars("/Teams/login"), Chars("/account/shelves"), Chars("/status"),
    Chars("/api/constructor"), Chars("health") }

InferFiles ==
  { Chars("/ws/routes/products.js"), Chars("/ws/src/index.js"),
    Chars("C:\\ws\\api\\v1\\orders\\items.ts"), Chars("/ws/app.js"),
    Chars("/ws/src/modules/billing/core/invoices.js") }

InferRoutes ==
  { [path |-> p, method |-> m, filePath |-> f] :
      p \in InferPaths, m \in CanonicalMethods, f \in InferFiles }

\* a caller runs CollectionInferencer.inferCollectionName(route)
InferCollectionName ==
  /\ infer.pc = "ready"
  /\ infer' = [infer EXCEPT !.pc = "done",
                            !.result = inferCollectionName(infer.route)]
  /\ UNCHANGED <<detVars, callVars, conf, hybrid, mongoVars, sampler, resolver>>

InferInit ==
  /\ \E r \in InferRoutes : infer = [pc |-> "ready", route |-> r, result |-> Null]
  /\ DetQuiet /\ ConfQuiet /\ HybridQuiet /\ MongoQuiet
  /\ SamplerQuiet /\ ResolverQuiet /\ CallsQuiet

InferNext == InferCollectionName

SpecInfer == InferInit /\ [][InferNext]_vars

IsDistinct(q) == \A i, j \in 1..Len(q) : q[i] = q[j] => i = j

InferReturned == infer.pc = "done" /\ ~infer.result.threw

ProductsById ==
  /\ infer.route.path = Chars("/api/v1/products/:id")
  /\ infer.route.method = Chars("GET")

None == <<>>
Some(x) == <<x>>
IsSome(o) == Len(o) > 0
Get(o) == o[1]

clampConfidence_NoUpperBound(confidence) == Max(confidence, 100)

\* calculateFieldConfidence, line 517: Math.min(Math.max(confidence, 0.1), 1.0)
clampConfidence(confidence) == Min(Max(confidence, 100), 1000)

\* the sum calculateFieldConfidence accumulates before it clamps
rawFieldConfidence(aiField, mongoField, realValues) ==
  LET c0 == 500
      c1 == IF IsSome(mongoField) THEN FloatAdd(c0, 300) ELSE c0
      c2 == IF IsSome(mongoField) /\ Get(mongoField).frequency > 80
              THEN FloatAdd(c1, 100) ELSE c1
      c3 == IF IsSome(mongoField) /\ Get(mongoField).isRequired
              THEN FloatAdd(c2, 100) ELSE c2
      c4 == IF IsSome(aiField) THEN FloatAdd(c3, 200) ELSE c3
      c5 == IF IsSome(aiField) /\ Get(aiField).required
              THEN FloatAdd(c4, 100) ELSE c4
      c6 == IF IsSome(realValues) /\ Len(Get(realValues)) > 0
              THEN FloatAdd(c5, 200) ELSE c5
      c7 == IF /\ IsSome(aiField)
               /\ IsSome(mongoField)
               /\ Get(aiField).type # Get(mongoField).type
              THEN FloatAdd(c6, -100) ELSE c6
  IN  c7

calculateFieldConfidence(aiField, mongoField, realValues) ==
  clampConfidence(rawFieldConfidence(aiField, mongoField, realValues))

\* arguments of calculateFieldConfidence
ConfAiFields ==
  {None} \cup { Some([required |-> r, type |-> t]) :
                  r \in BOOLEAN, t \in {"string", "number"} }

ConfMongoFields ==
  {None} \cup { Some([frequency |-> f, isRequired |-> r, type |-> t]) :
                  f \in {0, 80, 81, 100}, r \in BOOLEAN,
                  t \in {"string", "number"} }

ConfRealValues == { None, Some(<<>>), Some(<<"v">>) }

CalculateFieldConfidence ==
  /\ conf.pc = "ready"
  /\ conf' = [conf EXCEPT
                !.pc = "done",
                !.result = calculateFieldConfidence(conf.aiField,
                                                    conf.mongoField,
                                                    conf.realValues)]
  /\ UNCHANGED <<detVars, callVars, infer, hybrid, mongoVars, sampler, resolver>>

ConfInit ==
  /\ \E a \in ConfAiFields, m \in ConfMongoFields, v \in ConfRealValues :
       conf = [pc |-> "ready", aiField |-> a, mongoField |-> m,
               realValues |-> v, result |-> 0]
  /\ DetQuiet /\ InferQuiet /\ HybridQuiet /\ MongoQuiet
  /\ SamplerQuiet /\ ResolverQuiet /\ CallsQuiet

ConfNext == CalculateFieldConfidence

SpecConfidence == ConfInit /\ [][ConfNext]_vars

\* C7: for every combination of the formula's inputs the computed field
\* confidence lies in [0.1, 1.0] inclusive.
C7_ConfidenceWithinRange ==
  conf.pc = "done" => conf.result >= 100 /\ conf.result <= 1000

\* every boost applies: the sum is above 1.0 and the result is 1.0
C7_Witness ==
  /\ conf.pc = "done"
  /\ IsSome(conf.aiField) /\ IsSome(conf.mongoField)
  /\ rawFieldConfidence(conf.aiField, conf.mongoField, conf.realValues) = 1500
  /\ conf.result = 1000

(***************************************************************************)
(* The database and MongoConnector (src/unnamed/part_004)                  *)
(*                                                                         *)
(* db maps a collection name to its documents in natural order; a value   *)
(* of a document carries its BSON type.                                    *)
(***************************************************************************)
ObjectIdV(id) == [t |-> "ObjectId", v |-> id]
StringV(s)    == [t |-> "string", v |-> s]
NullV         == [t |-> "null", v |-> ""]

Connected    == [client |-> TRUE, db |-> TRUE, isConnected |-> TRUE]
Disconnected == [client |-> FALSE, db |-> FALSE, isConnected |-> FALSE]

isAvailable == mongo.isConnected /\ mongo.db

\* the documents of a collection; a collection nobody created is empty
Documents(name) == IF name \in DOMAIN db THEN db[name] ELSE <<>>

countDocuments(name) == Len(Documents(name))

\* cursor.limit(n): 0 asks for no limit
CursorLimit(docs, n) == IF n = 0 THEN docs ELSE SubSeq(docs, 1, Min(n, Len(docs)))

\* cursor.skip(n)
CursorSkip(docs, n) == SubSeq(docs, n + 1, Len(docs))

\* { $sample: { size } }: size documents picked at random without
\* repetition, the whole collection when it holds no more than size.  The
\* outcomes explored are the runs of consecutive documents.
SampleOutcomes(docs, size) ==
  IF Len(docs) <= size
    THEN {docs}
    ELSE { SubSeq(docs, s + 1, s + size) : s \in 0..(Len(docs) - size) }

\* the values of Math.floor(Math.random() * n), Math.random() in [0, 1)
RandomBelow(n) == IF n <= 0 THEN {0} ELSE 0..(n - 1)

SkipChoices_UpToCount(count, limit) == RandomBelow(count)

\* getSampleDocuments, line 225
SkipChoices(count, limit) == RandomBelow(Max(0, count - limit))

\* getSampleDocuments, line 223
SmallCollectionBelow == 100

MaxCount == 102
MaxLimit == 3

SampledCollection == Chars("items")

\* getSampleDocuments up to its first await (countDocuments)
GetSampleDocumentsStart(limit) ==
  /\ sampler.pc = "idle"
  /\ sampler' =
       [pc |-> IF isAvailable THEN "count" ELSE "done",
        collectionName |-> SampledCollection, limit |-> limit,
        available |-> isAvailable, count |-> 0, plan |-> "none", skip |-> 0,
        documents |-> <<>>, error |-> FALSE]
  /\ UNCHANGED <<detVars, callVars, infer, conf, hybrid, mongoVars, resolver>>

\* countDocuments has resolved: choose the query and await its toArray()
GetSampleDocumentsCounted ==
  /\ sampler.pc = "count"
  /\ LET count == countDocuments(sampler.collectionName)
     IN  \E skip \in SkipChoices(count, sampler.limit) :
           sampler' =
             [sampler EXCEPT
                !.pc = "find", !.count = count,
                !.plan = IF count <= sampler.limit THEN "all"
                         ELSE IF count < SmallCollectionBelow THEN "skip"
                         ELSE "sample",
                !.skip = IF count > sampler.limit /\ count < SmallCollectionBelow
                           THEN skip ELSE 0]
  /\ UNCHANGED <<detVars, callVars, infer, conf, hybrid, mongoVars, resolver>>

\* toArray() has resolved: return the documents
GetSampleDocumentsFound ==
  /\ sampler.pc = "find"
  /\ LET docs == Documents(sampler.collectionName)
     IN  \E documents \in
              (CASE sampler.plan = "all"  -> {docs}
                 [] sampler.plan = "skip" ->
                      {CursorLimit(CursorSkip(docs, sampler.skip), sampler.limit)}
                 [] OTHER -> SampleOutcomes(docs, sampler.limit)) :
           sampler' = [sampler EXCEPT !.pc = "done", !.documents = documents]
  /\ UNCHANGED <<detVars, callVars, infer, conf, hybrid, mongoVars, resolver>>

\* the driver rejects the pending command: the catch block returns []
GetSampleDocumentsFails ==
  /\ sampler.pc \in {"count", "find"}
  /\ sampler' = [sampler EXCEPT !.pc = "done", !.documents = <<>>,
                                !.error = TRUE]
  /\ UNCHANGED <<detVars, callVars, infer, conf, hybrid, mongoVars, resolver>>

SamplerInit ==
  /\ mongo \in {Connected, Disconnected}
  /\ \E n \in 0..MaxCount :
       db = [c \in {SampledCollection} |->
               [i \in 1..n |-> <<<<Chars("_id"), ObjectIdV(ToString(i))>>>>]]
  /\ sampler = Idle
  /\ DetQuiet /\ InferQuiet /\ ConfQuiet /\ HybridQuiet /\ ResolverQuiet /\ CallsQuiet

SamplerNext ==
  \/ \E limit \in 1..MaxLimit : GetSampleDocumentsStart(limit)
  \/ GetSampleDocumentsCounted
  \/ GetSampleDocumentsFound
  \/ GetSampleDocumentsFails

SpecSampler == SamplerInit /\ [][SamplerNext]_vars

SamplerReturned ==
  sampler.pc = "done" /\ sampler.available /\ ~sampler.error

\* C8: on an available connection with no driver error getSampleDocuments
\* returns exactly min(count, limit) documents: the whole collection when
\* count <= limit, a skip+limit window that does not run past the last
\* document when limit < count < 100, and limit sampled documents when
\* count >= 100.
C8_ReturnsMinCountLimit ==
  SamplerReturned =>
    LET docs == Documents(sampler.collectionName)
        count == Len(docs)
        limit == sampler.limit
    IN  /\ Len(sampler.documents) = Min(count, limit)
        /\ IsDistinct(sampler.documents)
        /\ SeqToSet(sampler.documents) \subseteq SeqToSet(docs)
        /\ count <= limit => sampler.plan = "all" /\ sampler.documents = docs
        /\ (limit < count /\ count < 100)
             => sampler.plan = "skip" /\ sampler.skip + limit <= count
        /\ count >= 100 => sampler.plan = "sample"

\* the largest skip on the largest collection that is still sampled by skip
C8_Witness ==
  /\ SamplerReturned
  /\ sampler.count = 99
  /\ sampler.plan = "skip"
  /\ sampler.skip = 99 - sampler.limit - 1
  /\ Len(sampler.documents) = sampler.limit

(***************************************************************************)
(* Documents.  A document is the sequence of its <<field name, value>>     *)
(* pairs in key order; field and collection names are character sequences. *)
(***************************************************************************)
DocHas(doc, name) == \E i \in 1..Len(doc) : doc[i][1] = name

\* doc[name], None when the document has no such field
DocGet(doc, name) ==
  IF DocHas(doc, name)
    THEN Some(doc[CHOOSE i \in 1..Len(doc) : doc[i][1] = name][2])
    ELSE None

\* the projection of a find(): the listed fields the document has
CursorProject(doc, names) ==
  LET Listed(pair) == arrayIncludes(names, pair[1]) IN SelectSeq(doc, Listed)

\* s.replace(/suffix$/, "")
StripSuffix(s, suffix) ==
  IF endsWith(s, suffix) THEN DropLast(s, Len(suffix)) ELSE s

\* arr.slice(0, n) for n >= 0
SliceTo(arr, n) == SubSeq(arr, 1, Min(n, Len(arr)))

(***************************************************************************)
(* ObjectIdResolver (src/unnamed/part_002)                                 *)
(***************************************************************************)
\* FIELD_COLLECTION_MAPPINGS: the entries for the user and product fields
FIELD_COLLECTION_MAPPINGS ==
  [k \in { Chars("userId"), Chars("user_id"), Chars("productId"),
           Chars("product_id") } |->
     IF k \in { Chars("userId"), Chars("user_id") }
       THEN <<Chars("users"), Chars("user"), Chars("accounts"),
              Chars("profiles")>>
       ELSE <<Chars("products"), Chars("product"), Chars("items")>>]

\* Object.entries order of the mapping keys
MappedFields ==
  <<Chars("userId"), Chars("user_id"), Chars("productId"), Chars("product_id")>>

getPossibleCollections(fieldName) ==
  IF fieldName \in DOMAIN FIELD_COLLECTION_MAPPINGS
    THEN FIELD_COLLECTION_MAPPINGS[fieldName]
    ELSE LET hits == { i \in 1..Len(MappedFields) :
                         toLowerCase(MappedFields[i]) = toLowerCase(fieldName) }
         IN  IF hits = {} THEN <<>>
             ELSE FIELD_COLLECTION_MAPPINGS[
                    MappedFields[CHOOSE i \in hits : \A j \in hits : i <= j]]

inferCollectionFromFieldName(fieldName) ==
  LET lowerFieldName == toLowerCase(fieldName)
      withoutSuffix ==
        StripSuffix(StripSuffix(StripSuffix(StripSuffix(lowerFieldName,
          Chars("id")), Chars("_id")), Chars("ref")), Chars("_ref"))
  IN  IF withoutSuffix # <<>> /\ withoutSuffix # lowerFieldName
        THEN <<withoutSuffix, withoutSuffix \o Chars("s")>>
               \o (IF endsWith(withoutSuffix, Chars("y"))
                     THEN <<DropLast(withoutSuffix, 1) \o Chars("ies")>>
                     ELSE <<>>)
        ELSE <<>>

\* the order in which listCollections reports the collections it finds
CollectionOrder ==
  <<Chars("orders"), Chars("profiles"), Chars("accounts"), Chars("user"),
    Chars("users"), Chars("items")>>

listCollections ==
  LET Exists(name) == name \in DOMAIN db IN SelectSeq(CollectionOrder, Exists)

displayFields ==
  <<Chars("name"), Chars("title"), Chars("username"), Chars("email"),
    Chars("displayName"), Chars("firstName"), Chars("lastName")>>

\* the display fields holding a non-empty string (null when there is none:
\* the empty sequence), with fullName when both name parts are there
extractDisplayInfo(doc) ==
  LET Shown(pair) == /\ arrayIncludes(displayFields, pair[1])
                     /\ pair[2].t = "string" /\ pair[2].v # ""
      OfField(name) == LET HasName(pair) == pair[1] = name /\ Shown(pair)
                       IN  SelectSeq(doc, HasName)
      RECURSIVE Collect(_)
      Collect(i) == IF i > Len(displayFields) THEN <<>>
                    ELSE OfField(displayFields[i]) \o Collect(i + 1)
      info == Collect(1)
  IN  IF DocHas(info, Chars("firstName")) /\ DocHas(info, Chars("lastName"))
        THEN Append(info, <<Chars("fullName"),
               StringV(Get(DocGet(info, Chars("firstName"))).v \o " "
                         \o Get(DocGet(info, Chars("lastName"))).v)>>)
        ELSE info

ResolvedObjectId(doc, sourceCollection, confidence) ==
  [objectId |-> Get(DocGet(doc, Chars("_id"))).v,
   sourceCollection |-> sourceCollection,
   displayInfo |-> extractDisplayInfo(doc),
   confidence |-> confidence]

\* find({ [fieldName]: { $exists: true, $type: "objectId" } })
HasObjectIdField(doc, fieldName) ==
  DocHas(doc, fieldName) /\ Get(DocGet(doc, fieldName)).t = "ObjectId"

findReferencedObjectIds(sourceCollection, targetCollection, fieldName, limit) ==
  LET Referencing(doc) == HasObjectIdField(doc, fieldName)
      referencingDocs ==
        CursorLimit(SelectSeq(Documents(targetCollection), Referencing),
                    limit * 2)
      referencedObjectIds ==
        { Get(DocGet(referencingDocs[i], fieldName)) :
            i \in 1..Len(referencingDocs) }
      Referenced(doc) == /\ DocHas(doc, Chars("_id"))
                         /\ Get(DocGet(doc, Chars("_id"))) \in referencedObjectIds
      referencedDocs == SelectSeq(Documents(sourceCollection), Referenced)
  IN  IF Len(referencingDocs) = 0
        THEN <<>>
        ELSE [i \in 1..Len(referencedDocs) |->
                ResolvedObjectId(referencedDocs[i], sourceCollection, 900)]

randomIdProjection ==
  <<Chars("_id"), Chars("name"), Chars("title"), Chars("username"),
    Chars("email"), Chars("displayName")>>

\* getObjectIdsFromCollection once the lookup of referenced ids has settled
getObjectIdsGiven(collectionName, referencedIds, limit) ==
  LET documents == CursorLimit(Documents(collectionName), limit * 2)
      randomIds ==
        [i \in 1..Len(documents) |->
           ResolvedObjectId(CursorProject(documents[i], randomIdProjection),
                            collectionName,
                            IF Len(referencedIds) > 0 THEN 500 ELSE 800)]
      existingIds == { referencedIds[i].objectId : i \in 1..Len(referencedIds) }
      NotReferenced(r) == r.objectId \notin existingIds
      combined == referencedIds \o SelectSeq(randomIds, NotReferenced)
  IN  IF Len(referencedIds) >= limit
        THEN referencedIds
        ELSE SliceTo(combined, limit)

\* does getObjectIdsFromCollection look for referenced ids at all
LooksForReferences(collectionName, contextCollection) ==
  /\ IsSome(contextCollection)
  /\ Get(contextCollection) # <<>>
  /\ Get(contextCollection) # collectionName

getObjectIdsFromCollection(collectionName, fieldName, contextCollection, limit) ==
  getObjectIdsGiven(collectionName,
    IF LooksForReferences(collectionName, contextCollection)
      THEN findReferencedObjectIds(collectionName, Get(contextCollection),
                                   fieldName, limit)
      ELSE <<>>,
    limit)

compareConfidence_Ascending(a, b) == a.confidence - b.confidence

\* the sort callback of resolveObjectIdField, line 153
compareConfidence(a, b) == b.confidence - a.confidence

\* allSuggestedIds.sort(...): Array.prototype.sort is stable, each element
\* goes behind the ones the callback does not put after it
RECURSIVE InsertByConfidence(_, _, _)
InsertByConfidence(sorted, x, i) ==
  IF i > Len(sorted) THEN Append(sorted, x)
  ELSE IF compareConfidence(sorted[i], x) > 0
    THEN SubSeq(sorted, 1, i - 1) \o <<x>> \o SubSeq(sorted, i, Len(sorted))
  ELSE InsertByConfidence(sorted, x, i + 1)

RECURSIVE SortByConfidence(_, _, _)
SortByConfidence(arr, i, sorted) ==
  IF i > Len(arr) THEN sorted
  ELSE TheOne({ SortByConfidence(arr, i + 1, s) :
                  s \in {InsertByConfidence(sorted, arr[i], 1)} })

\* resolveObjectIdField, lines 153-154
topSuggestions(allSuggestedIds, limit) ==
  SliceTo(SortByConfidence(allSuggestedIds, 1, <<>>), limit)

Resolution(fieldName, suggestedIds, possibleCollections, success, message) ==
  [fieldName |-> fieldName, suggestedIds |-> suggestedIds,
   possibleCollections |-> possibleCollections, success |-> success,
   errorMessage |-> message]

\* the collections resolveObjectIdField goes through once listCollections
\* has answered
existingCollections(fieldName) ==
  LET Available(col) == arrayIncludes(listCollections, col)
      mapped == SelectSeq(getPossibleCollections(fieldName), Available)
  IN  IF Len(mapped) = 0
        THEN SelectSeq(inferCollectionFromFieldName(fieldName), Available)
        ELSE mapped

RECURSIVE CollectSuggestedIds(_, _, _, _, _)
CollectSuggestedIds(collections, i, fieldName, contextCollection, limit) ==
  IF i > Len(collections) THEN <<>>
  ELSE getObjectIdsFromCollection(collections[i], fieldName,
                                  contextCollection, limit)
         \o CollectSuggestedIds(collections, i + 1, fieldName,
                                contextCollection, limit)

\* resolveObjectIdField run to completion while the driver answers every
\* command and nothing else touches the connection
resolveObjectIdField(fieldName, contextCollection, limit) ==
  IF ~isAvailable
    THEN Resolution(fieldName, <<>>, <<>>, FALSE, "MongoDB not connected")
  ELSE TheOne({
         IF Len(existing) = 0
           THEN Resolution(fieldName, <<>>, listCollections, TRUE,
                           "No matching collections found")
           ELSE TheOne({ Resolution(fieldName,
                                    topSuggestions(allSuggestedIds, limit),
                                    existing, TRUE, "") :
                         allSuggestedIds \in
                           {CollectSuggestedIds(existing, 1, fieldName,
                                                contextCollection, limit)} }) :
         existing \in {existingCollections(fieldName)} })

MaxResolveLimit == 2
MaxRefs == 2

\* resolveObjectIdField up to its first await (listCollections)
ResolveStart(fieldName, contextCollection, limit) ==
  /\ resolver.pc = "idle"
  /\ resolver' =
       [pc |-> IF isAvailable THEN "list" ELSE "done",
        fieldName |-> fieldName, contextCollection |-> contextCollection,
        limit |-> limit, available |-> isAvailable, error |-> FALSE,
        existingCollections |-> <<>>, idx |-> 0, allSuggestedIds |-> <<>>,
        result |-> IF isAvailable THEN Idle
                   ELSE Resolution(fieldName, <<>>, <<>>, FALSE,
                                   "MongoDB not connected")]
  /\ UNCHANGED <<detVars, callVars, infer, conf, hybrid, mongoVars, sampler>>

\* listCollections has resolved: return when no candidate collection
\* exists, else ask the first one for its ids
ResolveListed ==
  /\ resolver.pc = "list"
  /\ LET existing == existingCollections(resolver.fieldName)
     IN  resolver' =
           IF Len(existing) = 0
             THEN [resolver EXCEPT
                     !.pc = "done",
                     !.result = Resolution(resolver.fieldName, <<>>,
                                  listCollections, TRUE,
                                  "No matching collections found")]
             ELSE [resolver EXCEPT !.pc = "collect", !.idx = 1,
                                   !.existingCollections = existing]
  /\ UNCHANGED <<detVars, callVars, infer, conf, hybrid, mongoVars, sampler>>

\* the ids of one collection have arrived: ask the next collection, or
\* sort, truncate and return
ResolveGathered(objectIds, failed) ==
  LET all == resolver.allSuggestedIds \o objectIds
  IN  resolver' =
        IF resolver.idx < Len(resolver.existingCollections)
          THEN [resolver EXCEPT !.idx = @ + 1, !.allSuggestedIds = all,
                                !.error = @ \/ failed]
          ELSE [resolver EXCEPT
                  !.pc = "done", !.allSuggestedIds = all,
                  !.error = @ \/ failed,
                  !.result = Resolution(resolver.fieldName,
                               topSuggestions(all, resolver.limit),
                               resolver.existingCollections, TRUE, "")]

ResolveCollected ==
  /\ resolver.pc = "collect"
  /\ ResolveGathered(
       getObjectIdsFromCollection(resolver.existingCollections[resolver.idx],
         resolver.fieldName, resolver.contextCollection, resolver.limit),
       FALSE)
  /\ UNCHANGED <<detVars, callVars, infer, conf, hybrid, mongoVars, sampler>>

\* the driver rejects the lookup of referenced ids: findReferencedObjectIds
\* catches it and the collection's first documents are taken instead
ResolveReferenceLookupFails ==
  /\ resolver.pc = "collect"
  /\ LooksForReferences(resolver.existingCollections[resolver.idx],
                        resolver.contextCollection)
  /\ ResolveGathered(
       getObjectIdsGiven(resolver.existingCollections[resolver.idx], <<>>,
                         resolver.limit),
       TRUE)
  /\ UNCHANGED <<detVars, callVars, infer, conf, hybrid, mongoVars, sampler>>

\* the driver rejects the find of a collection: getObjectIdsFromCollection
\* catches it and contributes nothing
ResolveCollectionFails ==
  /\ resolver.pc = "collect"
  /\ ResolveGathered(<<>>, TRUE)
  /\ UNCHANGED <<detVars, callVars, infer, conf, hybrid, mongoVars, sampler>>

\* the driver rejects listCollections: MongoConnector.listCollections
\* catches it and answers [], so no candidate collection is found
ResolveListFails ==
  /\ resolver.pc = "list"
  /\ resolver' = [resolver EXCEPT
                    !.pc = "done", !.error = TRUE,
                    !.result = Resolution(resolver.fieldName, <<>>, <<>>,
                                 TRUE, "No matching collections found")]
  /\ UNCHANGED <<detVars, callVars, infer, conf, hybrid, mongoVars, sampler>>

\* documents of the model's collections
UserDoc(id, name) ==
  <<<<Chars("_id"), ObjectIdV(id)>>, <<Chars("name"), StringV(name)>>>>

OrderDoc(id, userId) ==
  <<<<Chars("_id"), ObjectIdV(id)>>, <<Chars("userId"), userId>>>>

UsersChoices ==
  { <<>>,
    <<UserDoc("u1", "Ann")>>,
    <<UserDoc("u1", "Ann"), UserDoc("u2", "")>>,
    <<UserDoc("u1", "Ann") \o <<<<Chars("userId"), ObjectIdV("a1")>>>>>> }

\* the other candidate collections of userId that exist
OtherCandidates ==
  { <<>>,
    <<<<Chars("accounts"), <<UserDoc("a1", "Acme")>>>>>>,
    <<<<Chars("accounts"), <<UserDoc("a1", "Acme"), UserDoc("a2", "Bolt")>>>>>>,
    <<<<Chars("accounts"), <<UserDoc("a1", "Acme"), UserDoc("a2", "Bolt")>>>>,
      <<Chars("profiles"), <<UserDoc("p1", "Pat")>>>>>>,
    <<<<Chars("user"), <<UserDoc("x1", "Xi")>>>>,
      <<Chars("accounts"), <<>>>>>> }

\* what the userId of an order may hold
RefValues ==
  { ObjectIdV("u1"), ObjectIdV("a1"), ObjectIdV("a2"), ObjectIdV("p1"),
    StringV("u1") }

RECURSIVE SeqsUpTo(_, _)
SeqsUpTo(S, n) ==
  IF n = 0 THEN {<<>>}
  ELSE SeqsUpTo(S, n - 1)
         \cup { Append(q, x) : q \in { r \in SeqsUpTo(S, n - 1) : Len(r) = n - 1 },
                               x \in S }

OrdersChoices ==
  { [i \in 1..Len(refs) |-> OrderDoc("o", refs[i])] : refs \in SeqsUpTo(RefValues, MaxRefs) }

\* a database: orders, maybe users, and some other candidate collections
Database(users, withUsers, others, orders) ==
  LET names == {Chars("orders")}
                 \cup (IF withUsers THEN {Chars("users")} ELSE {})
                 \cup { others[i][1] : i \in 1..Len(others) }
  IN  [c \in names |->
         IF c = Chars("orders") THEN orders
         ELSE IF c = Chars("users") THEN users
         ELSE others[CHOOSE i \in 1..Len(others) : others[i][1] = c][2]]

Databases ==
  { Database(u, TRUE, o, r) :
      u \in UsersChoices, o \in OtherCandidates, r \in OrdersChoices }
    \cup { Database(<<>>, FALSE, o, r) :
             o \in OtherCandidates, r \in OrdersChoices }

ResolvedFields == { Chars("userId"), Chars("UserID"), Chars("accountId") }

ContextCollections == { None, Some(Chars("orders")), Some(Chars("users")) }

ResolverInit ==
  /\ mongo \in {Connected, Disconnected}
  /\ db \in Databases
  /\ resolver = Idle
  /\ DetQuiet /\ InferQuiet /\ ConfQuiet /\ HybridQuiet /\ SamplerQuiet /\ CallsQuiet

ResolverNext ==
  \/ \E f \in ResolvedFields, c \in ContextCollections,
        limit \in 1..MaxResolveLimit : ResolveStart(f, c, limit)
  \/ ResolveListed
  \/ ResolveCollected
  \/ ResolveReferenceLookupFails
  \/ ResolveCollectionFails
  \/ ResolveListFails

SpecResolver == ResolverInit /\ [][ResolverNext]_vars

\* resolveObjectIdField("userId") has returned, the connection was
\* available, the driver answered every command, and users holds a document
UserIdResolved ==
  /\ resolver.pc = "done"
  /\ resolver.fieldName = Chars("userId")
  /\ resolver.available /\ ~resolver.error
  /\ Chars("users") \in DOMAIN db
  /\ Len(db[Chars("users")]) >= 1

HasEntryFrom(collectionName) ==
  \E i \in 1..Len(resolver.result.suggestedIds) :
    resolver.result.suggestedIds[i].sourceCollection = collectionName

\* C9 as stated: with an existing users collection holding a document,
\* resolveObjectIdField("userId") returns success = true and at least one
\* suggestedIds entry from "users", for every limit >= 1, whatever other
\* candidate collections exist and whatever the context collection
\* references.
C9_UsersEntryAlwaysSuggested ==
  UserIdResolved => resolver.result.success /\ HasEntryFrom(Chars("users"))

\* the ObjectIds which the documents consulted in the context collection
\* hold in userId, as seen from collection c
ReferencedFrom(c) ==
  IF LooksForReferences(c, resolver.contextCollection)
    THEN LET ctx == Documents(Get(resolver.contextCollection))
             holders == { i \in 1..Len(ctx) : HasObjectIdField(ctx[i], Chars("userId")) }
             consulted == { i \in holders :
                              Cardinality({ j \in holders : j < i })
                                < 2 * resolver.limit }
         IN  { Get(DocGet(ctx[i], Chars("userId"))).v : i \in consulted }
    ELSE {}

\* how many documents of collection c the context references
ReferencedCount(c) ==
  Cardinality({ i \in 1..Len(Documents(c)) :
                  Get(DocGet(Documents(c)[i], Chars("_id"))).v \in ReferencedFrom(c) })

OtherUserCollections ==
  { c \in { Chars("user"), Chars("accounts"), Chars("profiles") } : c \in DOMAIN db }

RECURSIVE ReferencedTotal(_)
ReferencedTotal(S) ==
  IF S = {} THEN 0
  ELSE LET c == CHOOSE y \in S : TRUE
       IN  ReferencedCount(c) + ReferencedTotal(S \ {c})

\* C9 as amended: success = true and suggestedIds is not empty; it holds an
\* entry from "users" exactly unless the context references no users
\* document while it references at least `limit` documents of the other
\* existing candidate collections (their entries, of confidence 0.9, then
\* fill the whole list).
C9_UsersEntryUnlessOutranked ==
  UserIdResolved =>
    /\ resolver.result.success
    /\ Len(resolver.result.suggestedIds) >= 1
    /\ HasEntryFrom(Chars("users"))
         <=> ~ /\ ReferencedCount(Chars("users")) = 0
               /\ ReferencedTotal(OtherUserCollections) >= resolver.limit

\* users and accounts are both referenced and share the list
C9_Witness ==
  /\ UserIdResolved
  /\ resolver.limit = 2
  /\ Len(resolver.result.suggestedIds) = 2
  /\ resolver.result.suggestedIds[1].sourceCollection = Chars("users")
  /\ resolver.result.suggestedIds[1].confidence = 900
  /\ resolver.result.suggestedIds[2].sourceCollection = Chars("accounts")
  /\ resolver.result.suggestedIds[2].confidence = 900

(***************************************************************************)
(* Collection suggestions and sample data                                  *)
(* (src/unnamed/part_003, src/conduit/src/db/sampleDataFetcher.ts)         *)
(***************************************************************************)
RECURSIVE AlternativeSuggestions(_, _)
AlternativeSuggestions(primary, i) ==
  IF i > Len(primary.alternativeNames) THEN <<>>
  ELSE (IF primary.alternativeNames[i] # primary.collectionName
          THEN <<Inference(primary.alternativeNames[i],
                           Max(100, FloatAdd(primary.confidence, -300)),
                           "alternative", <<>>)>>
          ELSE <<>>)
         \o AlternativeSuggestions(primary, i + 1)

\* getCollectionSuggestions: the primary inference, then its alternatives at
\* a lower confidence, sorted by confidence
getCollectionSuggestions(route) ==
  TheOne({ TheOne({ SortByConfidence(suggestions, 1, <<>>) :
                      suggestions \in
                        {<<primary>> \o AlternativeSuggestions(primary, 1)} }) :
             primary \in
               { Inference(r.collectionName, r.confidence, r.reasoning,
                           r.alternativeNames) :
                   r \in {inferCollectionName(route)} } })

\* fetchSampleDataForRoute catches what getCollectionSuggestions throws
SuggestionsOrNone(route) ==
  IF inferCollectionName(route).threw THEN <<>>
  ELSE getCollectionSuggestions(route)

\* what getSampleDocuments(collectionName, limit) may return when the
\* driver answers
SampleDocumentsOutcomes(collectionName, limit) ==
  LET docs == Documents(collectionName)
      count == Len(docs)
  IN  IF count <= limit THEN {docs}
      ELSE IF count < SmallCollectionBelow
        THEN { CursorLimit(CursorSkip(docs, skip), limit) :
                 skip \in SkipChoices(count, limit) }
      ELSE SampleOutcomes(docs, limit)

SampleDocument(doc) == [id |-> DocGet(doc, Chars("_id")), data |-> doc]

\* fetchSampleDataFromCollection, successful and not empty
CollectionSampleData(collectionName, confidence, documents) ==
  [collectionName |-> collectionName, confidence |-> confidence,
   samples |-> [i \in 1..Len(documents) |-> SampleDocument(documents[i])],
   totalDocuments |-> countDocuments(collectionName), success |-> TRUE]

\* the suggestions, among the first five, whose collection exists and
\* holds documents: the first of them becomes the primary
SuggestionsWithData(route) ==
  LET WithData(s) == /\ arrayIncludes(listCollections, s.collectionName)
                     /\ countDocuments(s.collectionName) > 0
  IN  TheOne({ SelectSeq(SliceTo(suggestions, 5), WithData) :
                 suggestions \in {SuggestionsOrNone(route)} })

\* the values realData.primary can take in getMongoData (None is null)
PrimaryOutcomes(route) ==
  IF ~isAvailable THEN {None}
  ELSE UNION { IF Len(withData) = 0 THEN {None}
               ELSE { Some(CollectionSampleData(withData[1].collectionName,
                             withData[1].confidence, d)) :
                        d \in SampleDocumentsOutcomes(
                                withData[1].collectionName, 3) } :
               withData \in {SuggestionsWithData(route)} }

\* fetchFieldSamples: the non-null values of a top-level field in the
\* first `limit` documents that have it
fetchFieldSamples(collectionName, fieldName, limit) ==
  LET HasValue(doc) == /\ DocHas(doc, fieldName)
                       /\ Get(DocGet(doc, fieldName)).t # "null"
      docs == CursorLimit(SelectSeq(Documents(collectionName), HasValue), limit)
  IN  IF ~isAvailable THEN <<>>
      ELSE [i \in 1..Len(docs) |-> Get(DocGet(docs[i], fieldName))]

(***************************************************************************)
(* Schema analysis (src/unnamed/part_004 inferSchema,                      *)
(* src/conduit/src/db/schemaViewer.ts).  The documents of the model are    *)
(* flat: a value is an ObjectId, a string or null.  Of a field's analysis  *)
(* the properties the payload generator reads are kept.                    *)
(***************************************************************************)
\* inferSchema: the documents it hands on as sampleDocuments (collections
\* of at most 50 documents are read whole, the first three are kept)
SchemaSampleDocuments(collectionName) ==
  SliceTo(Documents(collectionName), 3)

RECURSIVE FieldNamesOf(_, _, _, _)
FieldNamesOf(docs, d, k, acc) ==
  IF d > Len(docs) THEN acc
  ELSE IF k > Len(docs[d]) THEN FieldNamesOf(docs, d + 1, 1, acc)
  ELSE FieldNamesOf(docs, d, k + 1, SetAdd(acc, docs[d][k][1]))

\* the type name updateFieldAnalysis records for a value
TypeName(value) ==
  IF value.t = "null" THEN Chars("null")
  ELSE IF value.t = "ObjectId" THEN Chars("ObjectId")
  ELSE Chars("string")

RECURSIVE JoinTypes(_, _)
JoinTypes(types, i) ==
  IF i > Len(types) THEN <<>>
  ELSE IF i = 1 THEN types[1] \o JoinTypes(types, 2)
  ELSE Chars(" | ") \o types[i] \o JoinTypes(types, i + 1)

\* Math.round(n / total * 100)
RoundPercent(n, total) == (200 * n + total) \div (2 * total)

\* one entry of detailedFields
DetailedField(fieldName, sampleDocuments) ==
  LET Holds(doc) == DocHas(doc, fieldName)
      holders == SelectSeq(sampleDocuments, Holds)
      all == [i \in 1..Len(holders) |-> Get(DocGet(holders[i], fieldName))]
      IsNull(value) == value.t = "null"
      NotNull(value) == value.t # "null"
      nullCount == Len(SelectSeq(all, IsNull))
      values == SliceTo(SelectSeq(all, NotNull), 10)
      types == SetAddAll(<<>>, [i \in 1..Len(all) |-> TypeName(all[i])], 1)
      totalSamples == Len(sampleDocuments)
      frequency == RoundPercent(totalSamples - nullCount, totalSamples)
  IN  [name |-> fieldName, type |-> JoinTypes(types, 1),
       frequency |-> frequency, examples |-> SliceTo(values, 3),
       isRequired |-> frequency > 90]

\* detailedFields.sort((a, b) => b.frequency - a.frequency)
RECURSIVE InsertByFrequency(_, _, _)
InsertByFrequency(sorted, x, i) ==
  IF i > Len(sorted) THEN Append(sorted, x)
  ELSE IF sorted[i].frequency < x.frequency
    THEN SubSeq(sorted, 1, i - 1) \o <<x>> \o SubSeq(sorted, i, Len(sorted))
  ELSE InsertByFrequency(sorted, x, i + 1)

RECURSIVE SortByFrequency(_, _, _)
SortByFrequency(arr, i, sorted) ==
  IF i > Len(arr) THEN sorted
  ELSE TheOne({ SortByFrequency(arr, i + 1, s) :
                  s \in {InsertByFrequency(sorted, arr[i], 1)} })

analyzeFieldsInDetail(sampleDocuments) ==
  IF Len(sampleDocuments) = 0 THEN <<>>
  ELSE TheOne({ TheOne({ SortByFrequency(detailedFields, 1, <<>>) :
                           detailedFields \in
                             {[i \in 1..Len(names) |->
                                 DetailedField(names[i], sampleDocuments)]} }) :
                  names \in {FieldNamesOf(sampleDocuments, 1, 1, <<>>)} })

\* getCollectionSchema when the driver answers: the schema of the
\* collection, of which the generator reads detailedFields
getCollectionSchema(collectionName) ==
  IF ~isAvailable THEN None
  ELSE Some([collection |-> collectionName,
             totalDocuments |-> countDocuments(collectionName),
             detailedFields |->
               analyzeFieldsInDetail(SchemaSampleDocuments(collectionName))])

(***************************************************************************)
(* HybridPayloadGenerator (src/unnamed/part_005)                           *)
(***************************************************************************)
\* a string of 24 hexadecimal digits: the text of the ObjectId `id`
HexString(id) == [t |-> "hexstring", v |-> id]

\* sanitizeValue: an ObjectId becomes its 24-digit text
sanitizeValue(value) ==
  IF value.t = "ObjectId" THEN HexString(value.v) ELSE value

\* JSON.stringify(value), as far as telling values apart goes
stringify(value) == sanitizeValue(value)

\* getNestedFieldValue on a flat document: a dotted path finds nothing
getNestedFieldValue(doc, fieldPath) ==
  LET parts == split(fieldPath, {"."})
  IN  IF Len(parts) = 1 THEN DocGet(doc, parts[1]) ELSE None

RECURSIVE SampleValues(_, _, _, _, _)
SampleValues(fieldName, sampleDocuments, i, values, seen) ==
  IF i > Len(sampleDocuments) THEN values
  ELSE LET value == getNestedFieldValue(sampleDocuments[i].data, fieldName)
       IN  IF IsSome(value) /\ Get(value).t # "null"
                /\ stringify(Get(value)) \notin seen
             THEN SampleValues(fieldName, sampleDocuments, i + 1,
                               Append(values, sanitizeValue(Get(value))),
                               seen \cup {stringify(Get(value))})
             ELSE SampleValues(fieldName, sampleDocuments, i + 1, values, seen)

\* getRealValuesForField; queryFails: the driver rejects the field-sample
\* query, which fetchFieldSamples answers with []
getRealValuesForField(fieldName, sampleDocuments, collectionName, queryFails) ==
  LET values == SampleValues(fieldName, sampleDocuments, 1, <<>>, {})
      fieldSamples == IF queryFails THEN <<>>
                      ELSE fetchFieldSamples(Get(collectionName), fieldName, 5)
  IN  IF Len(values) = 0 /\ IsSome(collectionName) /\ Get(collectionName) # <<>>
        THEN [i \in 1..Len(fieldSamples) |-> sanitizeValue(fieldSamples[i])]
        ELSE values

shouldSkipField(fieldName, method, options) ==
  IF arrayIncludes(options.excludeFields, fieldName) THEN TRUE
  ELSE IF arrayIncludes(options.forceFields, fieldName) THEN FALSE
  ELSE IF \/ startsWith(fieldName, Chars("__"))
          \/ (fieldName = Chars("_id") /\ method = Chars("POST")) THEN TRUE
  ELSE IF fieldName = Chars("__v") \/ fieldName = Chars("version") THEN TRUE
  ELSE IF /\ method = Chars("POST")
          /\ fieldName \in {Chars("createdAt"), Chars("updatedAt")} THEN TRUE
  ELSE FALSE

getDefaultOptions ==
  [preferRealData |-> TRUE, includeAllFields |-> FALSE, useAIFallback |-> TRUE,
   limitFields |-> 15, excludeFields |-> <<Chars("__v"), Chars("_id")>>,
   forceFields |-> <<>>]

\* the last branch as the preference reads the other way round
determineRecommendedApproach_PreferenceSwapped(aiPrediction, mongoData, options) ==
  LET hasAI == IsSome(aiPrediction) /\ Len(Get(aiPrediction).fields) > 0
      hasMongo == /\ IsSome(mongoData)
                  /\ Len(Get(mongoData).primary.samples) > 0
  IN  IF ~hasAI /\ ~hasMongo THEN "ai-only"
      ELSE IF ~hasAI /\ hasMongo THEN "mongo-only"
      ELSE IF hasAI /\ ~hasMongo THEN "ai-only"
      ELSE IF ~options.preferRealData
        THEN (IF Get(mongoData).primary.confidence > 600
                THEN "hybrid" ELSE "ai-only")
      ELSE "hybrid"

determineRecommendedApproach(aiPrediction, mongoData, options) ==
  LET hasAI == IsSome(aiPrediction) /\ Len(Get(aiPrediction).fields) > 0
      hasMongo == /\ IsSome(mongoData)
                  /\ Len(Get(mongoData).primary.samples) > 0
  IN  IF ~hasAI /\ ~hasMongo THEN "ai-only"
      ELSE IF ~hasAI /\ hasMongo THEN "mongo-only"
      ELSE IF hasAI /\ ~hasMongo THEN "ai-only"
      ELSE IF options.preferRealData
        THEN (IF Get(mongoData).primary.confidence > 600
                THEN "hybrid" ELSE "ai-only")
      ELSE "hybrid"

\* aiFields.find((af) => af.name === name)
FindAiField(aiFields, name) ==
  LET hits == { i \in 1..Len(aiFields) : aiFields[i].name = name }
  IN  IF hits = {} THEN None
      ELSE Some(aiFields[CHOOSE i \in hits : \A j \in hits : i <= j])

\* the hybrid field of one schema field (first loop of
\* mergeFieldPredictions), lines 240-263
SchemaHybridFieldGiven(mongoField, aiField, realValues) ==
      [name |-> mongoField.name,
       type |-> IF IsSome(aiField) /\ IsSome(Get(aiField).type)
                  THEN Get(aiField).type ELSE Some(mongoField.type),
       required |-> mongoField.isRequired,
       example |-> IF Len(realValues) > 0 THEN Some(realValues[1])
                   ELSE SliceTo(mongoField.examples, 1),
       description |-> IF IsSome(aiField) THEN "ai" ELSE "collection",
       realValues |-> Some(realValues),
       hasRealData |-> Len(realValues) > 0,
       confidence |->
         calculateFieldConfidence(
           IF IsSome(aiField)
             THEN Some([required |-> Get(aiField).required,
                        type |-> Get(aiField).type])
             ELSE None,
           Some([frequency |-> mongoField.frequency,
                 isRequired |-> mongoField.isRequired,
                 type |-> Some(mongoField.type)]),
           Some(realValues)),
       source |-> IF IsSome(aiField) THEN "hybrid" ELSE "mongodb",
       mongoFieldInfo |-> Some([type |-> mongoField.type,
                                frequency |-> mongoField.frequency,
                                isRequired |-> mongoField.isRequired])]

\* lines 233-238: the LLM's field of that name and the field's real values
SchemaHybridField(mongoField, aiFields, primary, queryFails) ==
  TheOne({ SchemaHybridFieldGiven(mongoField,
                                  FindAiField(aiFields, mongoField.name),
                                  realValues) :
             realValues \in
               {getRealValuesForField(mongoField.name, primary.samples,
                  Some(primary.collectionName), queryFails)} })

\* the second loop scoring its fields with calculateFieldConfidence
AiHybridFieldGiven_Calculated(aiField, realValues) ==
      [name |-> aiField.name, type |-> aiField.type,
       required |-> aiField.required, example |-> aiField.example,
       description |-> "ai",
       realValues |-> Some(realValues),
       hasRealData |-> Len(realValues) > 0,
       confidence |->
         calculateFieldConfidence(
           Some([required |-> aiField.required, type |-> aiField.type]),
           None, Some(realValues)),
       source |-> IF Len(realValues) > 0 THEN "hybrid" ELSE "ai",
       mongoFieldInfo |-> None]

\* the hybrid field of one LLM field the schema does not have (second
\* loop), lines 277-288
AiHybridFieldGiven(aiField, realValues) ==
      [name |-> aiField.name, type |-> aiField.type,
       required |-> aiField.required, example |-> aiField.example,
       description |-> "ai",
       realValues |-> Some(realValues),
       hasRealData |-> Len(realValues) > 0,
       confidence |-> IF Len(realValues) > 0 THEN 800 ELSE 600,
       source |-> IF Len(realValues) > 0 THEN "hybrid" ELSE "ai",
       mongoFieldInfo |-> None]

\* lines 273-275: the field's real values, taken from the samples alone
AiHybridField(aiField, mongoData) ==
  TheOne({ AiHybridFieldGiven(aiField, realValues) :
             realValues \in
               {IF IsSome(mongoData)
                  THEN getRealValuesForField(aiField.name,
                         Get(mongoData).primary.samples, None, FALSE)
                  ELSE <<>>} })

\* first loop of mergeFieldPredictions: the schema fields that are not skipped
RECURSIVE SchemaHybridFields(_, _, _, _, _, _, _)
SchemaHybridFields(detailedFields, i, aiFields, primary, method, options, queryFails) ==
  IF i > Len(detailedFields) THEN <<>>
  ELSE (IF shouldSkipField(detailedFields[i].name, method, options)
          THEN <<>>
          ELSE <<SchemaHybridField(detailedFields[i], aiFields, primary,
                                   queryFails)>>)
         \o SchemaHybridFields(detailedFields, i + 1, aiFields, primary,
                               method, options, queryFails)

\* second loop: the LLM fields not processed yet and not skipped
RECURSIVE AiHybridFields(_, _, _, _, _, _)
AiHybridFields(aiFields, i, processedFields, mongoData, method, options) ==
  IF i > Len(aiFields) THEN <<>>
  ELSE IF /\ aiFields[i].name \notin processedFields
          /\ ~shouldSkipField(aiFields[i].name, method, options)
    THEN <<AiHybridField(aiFields[i], mongoData)>>
           \o AiHybridFields(aiFields, i + 1,
                processedFields \cup {aiFields[i].name}, mongoData, method,
                options)
  ELSE AiHybridFields(aiFields, i + 1, processedFields, mongoData, method,
                      options)

\* resolveObjectIdFields: does the field look like a reference
LooksLikeObjectId(field) ==
  \/ includes(Get(field.type), Chars("ObjectId"))
  \/ includes(toLowerCase(field.name), Chars("id"))
  \/ \E i \in 1..Len(Get(field.realValues)) :
       Get(field.realValues)[i].t = "hexstring"

\* field.type.includes(...) on a field without a type: a TypeError, raised
\* before the try block of resolveObjectIdFields
ResolveThrows(fields) == \E i \in 1..Len(fields) : ~IsSome(fields[i].type)

\* what resolveObjectIdFields does to a field, given its resolution
WithResolvedIds_KeepFlag(field, resolution) ==
  IF resolution.success /\ Len(resolution.suggestedIds) > 0
    THEN [field EXCEPT
            !.realValues =
               Some([i \in 1..Min(3, Len(resolution.suggestedIds)) |->
                       HexString(resolution.suggestedIds[i].objectId)]),
            !.confidence = Max(@, 800),
            !.source = IF @ = "ai" THEN "hybrid" ELSE @]
    ELSE field

WithResolvedIds(field, resolution) ==
  IF resolution.success /\ Len(resolution.suggestedIds) > 0
    THEN [field EXCEPT
            !.realValues =
               Some([i \in 1..Min(3, Len(resolution.suggestedIds)) |->
                       HexString(resolution.suggestedIds[i].objectId)]),
            !.confidence = Max(@, 800),
            !.hasRealData = TRUE,
            !.source = IF @ = "ai" THEN "hybrid" ELSE @]
    ELSE field

\* resolveObjectIdFields when it does not throw; resolutionFails: the
\* driver rejects the resolver's queries, which then suggests nothing
resolveObjectIdFields(fields, collectionName, resolutionFails) ==
  [i \in 1..Len(fields) |->
     IF LooksLikeObjectId(fields[i]) /\ ~resolutionFails
       THEN TheOne({ WithResolvedIds(fields[i], resolution) :
                       resolution \in
                         {resolveObjectIdField(fields[i].name, collectionName,
                                               5)} })
       ELSE fields[i]]

\* the sort callback of mergeFieldPredictions, lines 299-308
compareImportance(a, b) ==
  IF a.required /\ ~b.required THEN -1
  ELSE IF ~a.required /\ b.required THEN 1
  ELSE b.confidence - a.confidence

RECURSIVE InsertByImportance(_, _, _)
InsertByImportance(sorted, x, i) ==
  IF i > Len(sorted) THEN Append(sorted, x)
  ELSE IF compareImportance(sorted[i], x) > 0
    THEN SubSeq(sorted, 1, i - 1) \o <<x>> \o SubSeq(sorted, i, Len(sorted))
  ELSE InsertByImportance(sorted, x, i + 1)

RECURSIVE SortByImportance(_, _, _)
SortByImportance(arr, i, sorted) ==
  IF i > Len(arr) THEN sorted
  ELSE TheOne({ SortByImportance(arr, i + 1, s) :
                  s \in {InsertByImportance(sorted, arr[i], 1)} })

\* the fields both loops of mergeFieldPredictions produce
MergedFields(aiFields, mongoData, route, options, queryFails) ==
  TheOne({ fromSchema
             \o AiHybridFields(aiFields, 1,
                  { fromSchema[i].name : i \in 1..Len(fromSchema) },
                  mongoData, route.method, options) :
           fromSchema \in
             {IF IsSome(mongoData) /\ IsSome(Get(mongoData).schema)
                THEN SchemaHybridFields(
                       Get(Get(mongoData).schema).detailedFields, 1, aiFields,
                       Get(mongoData).primary, route.method, options,
                       queryFails)
                ELSE <<>>} })

\* mergeFieldPredictions: the fields it returns, or the TypeError it throws
mergeFieldPredictions(aiFields, mongoData, route, options, queryFails) ==
  LET collectionName == IF IsSome(mongoData)
                          THEN Some(Get(mongoData).primary.collectionName)
                          ELSE None
      Sorted(hybridFields) ==
        TheOne({ SortByImportance(resolved, 1, <<>>) :
                   resolved \in {resolveObjectIdFields(hybridFields,
                                   collectionName, queryFails)} })
      Limited(sorted) == IF options.limitFields > 0
                           THEN SliceTo(sorted, options.limitFields)
                           ELSE sorted
  IN  TheOne({ IF ResolveThrows(hybridFields)
                 THEN [threw |-> TRUE, merged |-> hybridFields,
                       fields |-> <<>>]
                 ELSE [threw |-> FALSE, merged |-> hybridFields,
                       fields |-> TheOne({ Limited(sorted) :
                                    sorted \in {Sorted(hybridFields)} })] :
               hybridFields \in {MergedFields(aiFields, mongoData, route,
                                              options, queryFails)} })

\* what mongoData?.primary evaluates to: getMongoData returns null, or an
\* object whose primary is not null
PrimaryOf(mongoData) == IF IsSome(mongoData) THEN "object" ELSE "undefined"

hasMongoDataOf_IgnoresConnection(hasMongoConnection, mongoData) ==
  PrimaryOf(mongoData) # "null"

\* line 109: hasMongoConnection && mongoData?.primary !== null
hasMongoDataOf(hasMongoConnection, mongoData) ==
  hasMongoConnection /\ PrimaryOf(mongoData) # "null"

\* the prediction generateHybridPrediction returns from its try block
HybridPrediction(hybridFields, hasMongoConnection, aiPrediction, mongoData, recommendedApproach) ==
  [fields |-> hybridFields,
   collectionName |-> IF IsSome(mongoData)
                        THEN Some(Get(mongoData).primary.collectionName)
                        ELSE None,
   collectionConfidence |-> IF IsSome(mongoData)
                              THEN Get(mongoData).primary.confidence ELSE 0,
   sampleDocuments |-> IF IsSome(mongoData)
                         THEN Get(mongoData).primary.samples ELSE <<>>,
   hasMongoData |-> hasMongoDataOf(hasMongoConnection, mongoData),
   aiPrediction |-> aiPrediction,
   mongoSchema |-> IF IsSome(mongoData) THEN Get(mongoData).schema ELSE None,
   recommendedApproach |-> recommendedApproach]

\* one field of the prediction the catch block builds, lines 124-130
FallbackField(field) ==
  [name |-> field.name, type |-> field.type, required |-> field.required,
   example |-> field.example, description |-> "ai", realValues |-> None,
   hasRealData |-> FALSE, confidence |-> 500, source |-> "ai",
   mongoFieldInfo |-> None]

\* the prediction the catch block returns
FallbackPrediction(aiPrediction) ==
  [fields |-> IF IsSome(aiPrediction)
                THEN [i \in 1..Len(Get(aiPrediction).fields) |->
                        FallbackField(Get(aiPrediction).fields[i])]
                ELSE <<>>,
   collectionName |-> None, collectionConfidence |-> 0,
   sampleDocuments |-> <<>>, hasMongoData |-> FALSE,
   aiPrediction |-> aiPrediction, mongoSchema |-> None,
   recommendedApproach |-> "ai-only"]

\* getAIPrediction returns null without asking the predictor
AIDisabled(options) == ~options.useAIFallback /\ ~options.preferRealData

otherVarsOfHybrid == <<detVars, callVars, infer, conf, sampler, resolver>>

\* generateHybridPrediction up to its await of Promise.all
HybridStart(route, options) ==
  /\ hybrid.pc = "idle"
  /\ hybrid' = [pc |-> "both", route |-> route, options |-> options,
                hasMongoConnection |-> isAvailable,
                aiSettled |-> FALSE, mongoSettled |-> ~isAvailable,
                first |-> IF isAvailable THEN "" ELSE "mongo",
                aiCalls |-> IF AIDisabled(options) THEN 0 ELSE 1,
                mongoCalls |-> IF isAvailable THEN 1 ELSE 0,
                aiPrediction |-> None, mongoData |-> None,
                merged |-> <<>>, fellBack |-> FALSE, result |-> Null]
  /\ UNCHANGED <<otherVarsOfHybrid, mongoVars>>

\* getAIPrediction settles: the predictor's prediction, or null when the
\* predictor has none, throws, or is not asked
HybridAISettles(reply) ==
  /\ hybrid.pc = "both"
  /\ ~hybrid.aiSettled
  /\ AIDisabled(hybrid.options) => reply = None
  /\ hybrid' = [hybrid EXCEPT !.aiSettled = TRUE, !.aiPrediction = reply,
                              !.first = IF @ = "" THEN "ai" ELSE @]
  /\ UNCHANGED <<otherVarsOfHybrid, mongoVars>>

\* getMongoData settles; driverFails: the driver rejects the sample
\* queries, schemaFails: it rejects the schema queries
HybridMongoSettles(driverFails, schemaFails) ==
  /\ hybrid.pc = "both"
  /\ ~hybrid.mongoSettled
  /\ \E primary \in PrimaryOutcomes(hybrid.route) :
       hybrid' = [hybrid EXCEPT
                    !.mongoSettled = TRUE,
                    !.first = IF @ = "" THEN "mongo" ELSE @,
                    !.mongoData =
                       IF driverFails \/ ~IsSome(primary) THEN None
                       ELSE Some([primary |-> Get(primary),
                                  schema |->
                                    IF schemaFails THEN None
                                    ELSE getCollectionSchema(
                                           Get(primary).collectionName)])]
  /\ UNCHANGED <<otherVarsOfHybrid, mongoVars>>

\* a combinator that resolves with the first promise to settle
BothSettled_FirstOnly == hybrid.aiSettled \/ hybrid.mongoSettled

\* await Promise.all([aiPredictionPromise, mongoDataPromise]), lines 84-87:
\* neither promise rejects, so it resolves when both have settled
BothSettled == hybrid.aiSettled /\ hybrid.mongoSettled

\* both promises have settled: the rest of the try block; a TypeError of
\* mergeFieldPredictions takes the call to the catch block
HybridMerged(queryFails) ==
  /\ hybrid.pc = "both"
  /\ BothSettled
  /\ LET aiPrediction == hybrid.aiPrediction
         mongoData == hybrid.mongoData
         recommendedApproach ==
           determineRecommendedApproach(aiPrediction, mongoData,
                                        hybrid.options)
         merged == mergeFieldPredictions(
                     IF IsSome(aiPrediction) THEN Get(aiPrediction).fields
                                             ELSE <<>>,
                     mongoData, hybrid.route, hybrid.options, queryFails)
     IN  hybrid' =
           IF merged.threw
             THEN [hybrid EXCEPT
                     !.pc = "fallback", !.fellBack = TRUE,
                     !.merged = merged.merged,
                     !.aiCalls = IF AIDisabled(hybrid.options) THEN @
                                 ELSE @ + 1]
             ELSE [hybrid EXCEPT
                     !.pc = "done",
                     !.merged = merged.merged,
                     !.result = HybridPrediction(merged.fields,
                                  hybrid.hasMongoConnection, aiPrediction,
                                  mongoData, recommendedApproach)]
  /\ UNCHANGED <<otherVarsOfHybrid, mongoVars>>

\* the catch block: the second getAIPrediction settles
HybridFallbackSettles(reply) ==
  /\ hybrid.pc = "fallback"
  /\ AIDisabled(hybrid.options) => reply = None
  /\ hybrid' = [hybrid EXCEPT !.pc = "done",
                              !.aiPrediction = reply,
                              !.result = FallbackPrediction(reply)]
  /\ UNCHANGED <<otherVarsOfHybrid, mongoVars>>

\* MongoConnector.connect succeeds (lines 50-87)
MongoConnects ==
  /\ mongo # Connected
  /\ mongo' = Connected
  /\ UNCHANGED <<otherVarsOfHybrid, hybrid, db>>

\* MongoConnector.disconnect (lines 92-105)
MongoDisconnects ==
  /\ mongo # Disconnected
  /\ mongo' = Disconnected
  \* a data-sampler call suspended at an await is torn down under
  /\ gate' = IF gate.pc = "await" THEN [gate EXCEPT !.tornDown = TRUE] ELSE gate
  /\ UNCHANGED <<detVars, extract, approach, serviceVars, infer, conf, sampler, resolver,
                 hybrid, db>>

\* routes handed to generateHybridPrediction
HybridRoutes ==
  { [path |-> Chars("/orders"), method |-> Chars("GET"),
     filePath |-> Chars("/ws/routes/orders.js")],
    [path |-> Chars("/orders"), method |-> Chars("POST"),
     filePath |-> Chars("/ws/routes/orders.js")],
    [path |-> Chars("/status"), method |-> Chars("GET"),
     filePath |-> Chars("/ws/app.js")] }

\* generation options: the defaults, the LLM switched off, one field at
\* most with nothing excluded, _id forced while the defaults exclude it,
\* _id forced with nothing excluded
HybridOptions ==
  { getDefaultOptions,
    [getDefaultOptions EXCEPT !.preferRealData = FALSE,
                              !.useAIFallback = FALSE],
    [getDefaultOptions EXCEPT !.preferRealData = FALSE,
                              !.limitFields = 1, !.excludeFields = <<>>],
    [getDefaultOptions EXCEPT !.forceFields = <<Chars("_id")>>],
    [getDefaultOptions EXCEPT !.excludeFields = <<>>,
                              !.forceFields = <<Chars("_id")>>] }

\* a field of the predictor's reply; parseBackendResponse hands a backend
\* payload on unvalidated, so a field may lack its type
AiField(name, type, required) ==
  [name |-> Chars(name), type |-> type, required |-> required,
   example |-> None, description |-> "ai"]

\* what getAIPrediction may resolve to
AiReplies ==
  { None,
    Some([fields |-> <<>>]),
    Some([fields |-> <<AiField("note", Some(Chars("string")), FALSE)>>]),
    Some([fields |-> <<AiField("userId", Some(Chars("ObjectId")), TRUE),
                       AiField("total", Some(Chars("number")), TRUE)>>]),
    Some([fields |-> <<AiField("total", None, FALSE)>>]),
    Some([fields |-> <<AiField("note", Some(Chars("string")), FALSE),
                       AiField("userId", Some(Chars("ObjectId")), TRUE)>>]) }

NoteDoc(id, note) ==
  <<<<Chars("_id"), ObjectIdV(id)>>, <<Chars("note"), note>>>>

\* the orders collections of the model
HybridOrders ==
  { <<>>,
    <<NoteDoc("o1", NullV) \o <<<<Chars("userId"), ObjectIdV("u1")>>>>>>,
    <<NoteDoc("o1", StringV("hi")), NoteDoc("o2", StringV("hi"))>>,
    <<OrderDoc("o1", NullV)>>,
    <<NoteDoc("o1", NullV), NoteDoc("o2", NullV), NoteDoc("o3", NullV),
      NoteDoc("o4", StringV("late"))>> }

HybridDatabases ==
  { Database(<<UserDoc("u1", "Ann")>>, TRUE, <<>>, o) : o \in HybridOrders }
    \cup { Database(<<>>, FALSE, <<>>, o) : o \in HybridOrders }
    \cup { [c \in {Chars("users")} |-> <<UserDoc("u1", "Ann")>>] }

HybridInit ==
  /\ mongo \in {Connected, Disconnected}
  /\ db \in HybridDatabases
  /\ hybrid = Idle
  /\ DetQuiet /\ InferQuiet /\ ConfQuiet /\ SamplerQuiet /\ ResolverQuiet /\ CallsQuiet

HybridNext ==
  \/ \E r \in HybridRoutes, o \in HybridOptions : HybridStart(r, o)
  \/ \E reply \in AiReplies : HybridAISettles(reply)
  \/ \E driverFails, schemaFails \in BOOLEAN :
       HybridMongoSettles(driverFails, schemaFails)
  \/ \E queryFails \in BOOLEAN : HybridMerged(queryFails)
  \/ \E reply \in AiReplies : HybridFallbackSettles(reply)
  \/ MongoConnects
  \/ MongoDisconnects

SpecHybrid == HybridInit /\ [][HybridNext]_vars

HybridReturned == hybrid.pc = "done"

\* C5: if the data store is unavailable when generateHybridPrediction is
\* called, the returned prediction has hasMongoData = false and
\* recommendedApproach = "ai-only", whether or not the LLM call succeeded.
C5_UnavailableStoreMeansAiOnly ==
  (HybridReturned /\ ~hybrid.hasMongoConnection) =>
     /\ hybrid.result.hasMongoData = FALSE
     /\ hybrid.result.recommendedApproach = "ai-only"

\* the store was unavailable at the call and came up during it, the LLM
\* call succeeded and the try block returned
C5_Witness ==
  /\ HybridReturned
  /\ ~hybrid.hasMongoConnection
  /\ ~hybrid.fellBack
  /\ isAvailable
  /\ IsSome(hybrid.result.aiPrediction)
  /\ Len(hybrid.result.fields) = 2
  /\ hybrid.result.recommendedApproach = "ai-only"
  /\ ~hybrid.result.hasMongoData

\* C6 as stated: in every returned prediction each field whose source is
\* "mongodb" has hasRealData = true, also when neither the sample
\* documents nor the field-sample query yield a non-null value.
C6_MongodbFieldsHaveRealData ==
  HybridReturned =>
    \A i \in 1..Len(hybrid.result.fields) :
      hybrid.result.fields[i].source = "mongodb"
        => hybrid.result.fields[i].hasRealData

HasRealValues(field) ==
  IsSome(field.realValues) /\ Len(Get(field.realValues)) > 0

\* C6 as amended: in every returned prediction each field whose source is
\* "mongodb" has hasRealData = true exactly when its realValues is not
\* empty (filled from the sample documents, the field-sample query or the
\* resolution of ObjectId references).
C6_MongodbFieldsRealDataIffValues ==
  HybridReturned =>
    \A i \in 1..Len(hybrid.result.fields) :
      hybrid.result.fields[i].source = "mongodb"
        => (hybrid.result.fields[i].hasRealData
              <=> HasRealValues(hybrid.result.fields[i]))

\* a returned prediction with a "mongodb" field without values (note, null
\* in every document) and a "mongodb" field with a sampled value (userId)
C6_Witness ==
  /\ HybridReturned
  /\ \E i, j \in 1..Len(hybrid.result.fields) :
       /\ hybrid.result.fields[i].source = "mongodb"
       /\ hybrid.result.fields[i].name = Chars("note")
       /\ ~hybrid.result.fields[i].hasRealData
       /\ ~HasRealValues(hybrid.result.fields[i])
       /\ hybrid.result.fields[j].source = "mongodb"
       /\ hybrid.result.fields[j].name = Chars("userId")
       /\ hybrid.result.fields[j].hasRealData
       /\ HasRealValues(hybrid.result.fields[j])

(***************************************************************************)
(* The data-sampler operations, await by await, while the connection is    *)
(* set up and torn down under them (src/unnamed/part_004,                  *)
(* src/conduit/src/db/schemaViewer.ts, sampleDataFetcher.ts,               *)
(* src/unnamed/part_002).  `gate` is one call: the command it awaits       *)
(* (`at`), whether isAvailable() held when it was called, how many         *)
(* commands it has handed to the driver (`cmds`) and how many of them      *)
(* while isAvailable() was false (`late`), whether disconnect() ran while  *)
(* it was suspended (`tornDown`), whether the driver rejected one of its   *)
(* commands (`rejected`).  A step yields the set of records the call may   *)
(* be in next.                                                             *)
(***************************************************************************)
GateCalled(op) ==
  [pc |-> "run", op |-> op, at |-> "", available |-> isAvailable,
   cmds |-> 0, late |-> 0, tornDown |-> FALSE, rejected |-> FALSE, i |-> 1,
   list |-> <<>>, acc |-> <<>>, aux |-> <<>>, result |-> Null]

\* the call hands a command to the driver and suspends until it settles
Await(g, at) ==
  { [g EXCEPT !.pc = "await", !.at = at, !.cmds = @ + 1,
              !.late = IF isAvailable THEN @ ELSE @ + 1] }

\* the call returns
Return(g, result) == { [g EXCEPT !.pc = "done", !.at = "", !.result = result] }

\* the arguments of the calls of the model
GateCollection == Chars("orders")
GateRelated == Chars("users")
GateField == Chars("userId")
GateLimit == 2
GateRoute ==
  [path |-> Chars("/orders"), method |-> Chars("GET"),
   filePath |-> Chars("/ws/routes/orders.js")]

\* listCollections without its isAvailable() test
listCollectionsCall_NoGuard(g) == Await(g, "listCollections")

\* ---- MongoConnector.listCollections, part_004:137-150 ----
listCollectionsCall(g) ==
  IF ~isAvailable THEN Return(g, <<>>)
  ELSE Await(g, "listCollections")

listCollectionsResume(g, ok) ==
  Return(g, IF ok THEN listCollections ELSE <<>>)

\* ---- MongoConnector.getCollectionsInfo, part_004:156-192 ----
\* the for loop: this.db.collection(name) throws a TypeError once
\* disconnect() has set this.db to null; the inner catch block throws it
\* again and the outer one returns []
getCollectionsInfoLoop(g) ==
  IF g.i > Len(g.list) THEN Return(g, g.acc)
  ELSE IF ~mongo.db THEN Return(g, <<>>)
  ELSE Await(g, "collStats")

getCollectionsInfoCall(g) ==
  IF ~isAvailable THEN Return(g, <<>>)
  ELSE Await(g, "listCollections")

CollectionInfo(name) == [name |-> name, count |-> countDocuments(name)]

getCollectionsInfoResume(g, ok) ==
  LET pushed == [g EXCEPT !.acc = Append(@, CollectionInfo(g.list[g.i])),
                          !.i = @ + 1]
  IN  CASE g.at = "listCollections" ->
             getCollectionsInfoLoop(
               [g EXCEPT !.list = IF ok THEN listCollections ELSE <<>>])
        [] g.at = "collStats" ->
             IF ok THEN getCollectionsInfoLoop(pushed)
             ELSE IF ~mongo.db THEN Return(g, <<>>)
             ELSE Await(g, "countDocuments")
        [] OTHER ->
             IF ok THEN getCollectionsInfoLoop(pushed) ELSE Return(g, <<>>)

\* ---- MongoConnector.getSampleDocuments, part_004:200-242 ----
getSampleDocumentsCall(g) ==
  IF ~isAvailable THEN Return(g, <<>>)
  ELSE Await(g, "countDocuments")

\* the query goes to the collection handle taken before the first await
getSampleDocumentsResume(g, ok) ==
  CASE ~ok -> Return(g, <<>>)
    [] g.at = "countDocuments" -> Await(g, "find")
    [] OTHER ->
         UNION { Return(g, documents) :
                   documents \in SampleDocumentsOutcomes(GateCollection,
                                                         GateLimit) }

\* ---- MongoConnector.findValidObjectIds, part_004:252-309 ----
findValidObjectIdsCall(g) ==
  IF ~isAvailable THEN Return(g, <<>>)
  ELSE Await(g, "find")

\* does a document of the collection hold the id in its foreign key
UsedAsForeignKey(id) ==
  \E k \in 1..Len(Documents(GateCollection)) :
    DocGet(Documents(GateCollection)[k], GateField) = Some(ObjectIdV(id))

\* lines 293-304: too few ids in use, so ids of the related collection
\* fill the list
FilledUp(validIds, relatedIds) ==
  LET NotYetValid(id) == ~arrayIncludes(validIds, id)
  IN  IF Len(validIds) < GateLimit
        THEN validIds
               \o SelectSeq(SliceTo(relatedIds, GateLimit - Len(validIds)),
                            NotYetValid)
        ELSE validIds

findValidObjectIdsLoop(g) ==
  IF g.i > Len(g.list) \/ Len(g.acc) >= GateLimit
    THEN Return(g, FilledUp(g.acc, g.list))
    ELSE Await(g, "findOne")

findValidObjectIdsResume(g, ok) ==
  LET relatedDocs == CursorLimit(Documents(GateRelated), GateLimit * 2)
  IN  CASE ~ok -> Return(g, <<>>)
        [] g.at = "find" ->
             findValidObjectIdsLoop(
               [g EXCEPT !.list =
                  [k \in 1..Len(relatedDocs) |->
                     Get(DocGet(relatedDocs[k], Chars("_id"))).v]])
        [] OTHER ->
             findValidObjectIdsLoop(
               [g EXCEPT !.acc = IF UsedAsForeignKey(g.list[g.i])
                                   THEN Append(@, g.list[g.i]) ELSE @,
                         !.i = @ + 1])

\* ---- MongoConnector.inferSchema, part_004:319-399 ----
\* the schema inferSchema returns, as far as its callers read it
InferredSchema(collectionName, totalDocuments, sampleDocuments) ==
  [collection |-> collectionName, totalDocuments |-> totalDocuments,
   sampleDocuments |-> sampleDocuments]

inferSchemaCall(g) ==
  IF ~isAvailable THEN Return(g, None)
  ELSE Await(g, "countDocuments")

\* Some(the value inferSchema resolves to), or None while it goes on to its
\* second query
inferSchemaSettled(g, ok) ==
  CASE ~ok -> Some(None)
    [] g.at = "countDocuments" ->
         IF countDocuments(GateCollection) = 0
           THEN Some(Some(InferredSchema(GateCollection, 0, <<>>)))
           ELSE None
    [] OTHER ->
         Some(Some(InferredSchema(GateCollection,
                                  countDocuments(GateCollection),
                                  SchemaSampleDocuments(GateCollection))))

inferSchemaResume(g, ok) ==
  IF IsSome(inferSchemaSettled(g, ok))
    THEN Return(g, Get(inferSchemaSettled(g, ok)))
    ELSE Await(g, "find")

\* ---- SchemaViewer.getCollectionSchema, schemaViewer.ts:83-150 ----
\* guessTargetCollection, schemaViewer.ts:501-525
guessTargetCollection(fieldName) ==
  LET baseName ==
        StripSuffix(StripSuffix(StripSuffix(StripSuffix(toLowerCase(fieldName),
          Chars("id")), Chars("_id")), Chars("ref")), Chars("_ref"))
  IN  IF baseName = <<>> THEN None
      ELSE IF ~endsWith(baseName, Chars("s"))
        THEN (IF endsWith(baseName, Chars("y"))
                THEN Some(DropLast(baseName, 1) \o Chars("ies"))
                ELSE Some(baseName \o Chars("s")))
      ELSE Some(baseName)

\* the fields for which analyzeFieldRelation asks for the collection list:
\* they hold an ObjectId, are named like an id and are not _id
RelationFields(sampleDocuments) ==
  LET names == FieldNamesOf(sampleDocuments, 1, 1, <<>>)
      AsksForCollections(name) ==
        /\ \E k \in 1..Len(sampleDocuments) :
             HasObjectIdField(sampleDocuments[k], name)
        /\ includes(toLowerCase(name), Chars("id"))
        /\ name # Chars("_id")
        /\ IsSome(guessTargetCollection(name))
  IN  SelectSeq(names, AsksForCollections)

\* the schema getCollectionSchema returns, as far as its callers read it
CollectionSchema(basicSchema, detailedFields) ==
  Some([collection |-> basicSchema.collection,
        totalDocuments |-> basicSchema.totalDocuments,
        detailedFields |-> detailedFields])

getCollectionSchemaCall(g) ==
  IF ~isAvailable THEN Return(g, None)
  ELSE Await(g, "countDocuments")

\* getIndexes, schemaViewer.ts:566-595, and the return
getCollectionSchemaIndexes(g) ==
  IF ~isAvailable THEN Return(g, CollectionSchema(g.aux, g.acc))
  ELSE Await(g, "listIndexes")

\* the loop of analyzeFieldsInDetail, at a field analyzeFieldRelation
\* looks into: listCollections() answers [] by itself when unavailable
getCollectionSchemaRelations(g) ==
  IF g.i > Len(g.list) THEN getCollectionSchemaIndexes(g)
  ELSE IF ~isAvailable
    THEN getCollectionSchemaIndexes([g EXCEPT !.i = Len(g.list) + 1])
  ELSE Await(g, "relation.listCollections")

\* analyzeFieldsInDetail, schemaViewer.ts:216-314
getCollectionSchemaAnalysis(g) ==
  IF ~isAvailable \/ Len(g.aux.sampleDocuments) = 0
    THEN getCollectionSchemaIndexes([g EXCEPT !.acc = <<>>])
    ELSE getCollectionSchemaRelations(
           [g EXCEPT !.acc = analyzeFieldsInDetail(g.aux.sampleDocuments),
                     !.list = RelationFields(g.aux.sampleDocuments),
                     !.i = 1])

\* getCollectionStatistics, schemaViewer.ts:158-207
getCollectionSchemaStatistics(g) ==
  IF ~isAvailable THEN getCollectionSchemaAnalysis(g)
  ELSE Await(g, "collStats")

getCollectionSchemaResume(g, ok) ==
  CASE g.at \in {"countDocuments", "find"} ->
         LET settled == inferSchemaSettled(g, ok)
         IN  IF ~IsSome(settled) THEN Await(g, "find")
             ELSE IF ~IsSome(Get(settled)) THEN Return(g, None)
             ELSE getCollectionSchemaStatistics(
                    [g EXCEPT !.aux = Get(Get(settled))])
    [] g.at = "collStats" ->
         IF ok THEN getCollectionSchemaAnalysis(g)
         ELSE Await(g, "stats.countDocuments")
    [] g.at = "stats.countDocuments" -> getCollectionSchemaAnalysis(g)
    [] g.at = "relation.listCollections" ->
         getCollectionSchemaRelations([g EXCEPT !.i = @ + 1])
    [] OTHER -> Return(g, CollectionSchema(g.aux, g.acc))

\* ---- SampleDataFetcher.fetchSampleDataForRoute, sampleDataFetcher.ts:38-97 ----
RealDataOptions(primary, alternatives, availableCollections) ==
  [primary |-> primary, alternatives |-> alternatives,
   availableCollections |-> availableCollections]

NoRealData == RealDataOptions(None, <<>>, <<>>)

fetchSampleDataForRouteCall(g) ==
  IF ~isAvailable THEN Return(g, NoRealData)
  ELSE Await(g, "listCollections")

\* the loop over the suggestions, at the call of fetchSampleDataFromCollection
\* for suggestion g.i: that call tests isAvailable() again
RECURSIVE fetchSampleDataForRouteLoop(_)
fetchSampleDataForRouteLoop(g) ==
  IF g.i > Len(g.list)
    THEN Return(g, RealDataOptions(
                     IF Len(g.acc) > 0 THEN Some(g.acc[1]) ELSE None,
                     IF Len(g.acc) > 0 THEN Tail(g.acc) ELSE <<>>,
                     g.aux))
  ELSE IF ~isAvailable
    THEN fetchSampleDataForRouteLoop([g EXCEPT !.i = @ + 1])
  ELSE Await(g, "from.countDocuments")

fetchSampleDataForRouteResume(g, ok) ==
  LET next == [g EXCEPT !.i = @ + 1]
      name == g.list[g.i].collectionName
  IN
  CASE g.at = "listCollections" ->
         IF inferCollectionName(GateRoute).threw THEN Return(g, NoRealData)
         ELSE LET availableCollections == IF ok THEN listCollections ELSE <<>>
                  Available(s) ==
                    arrayIncludes(availableCollections, s.collectionName)
              IN  UNION { fetchSampleDataForRouteLoop(
                            [g EXCEPT !.aux = availableCollections, !.i = 1,
                                      !.acc = <<>>,
                                      !.list = SelectSeq(SliceTo(suggestions, 5),
                                                         Available)]) :
                          suggestions \in {getCollectionSuggestions(GateRoute)} }
    [] g.at = "from.countDocuments" ->
         IF ~ok \/ countDocuments(name) = 0
           THEN fetchSampleDataForRouteLoop(next)
         \* getSampleDocuments tests isAvailable() once more
         ELSE IF ~isAvailable THEN fetchSampleDataForRouteLoop(next)
         ELSE Await(g, "sample.countDocuments")
    [] g.at = "sample.countDocuments" ->
         IF ~ok THEN fetchSampleDataForRouteLoop(next)
         ELSE Await(g, "sample.find")
    [] OTHER ->
         IF ~ok THEN fetchSampleDataForRouteLoop(next)
         ELSE UNION { IF Len(documents) = 0
                        THEN fetchSampleDataForRouteLoop(next)
                        ELSE fetchSampleDataForRouteLoop(
                               [next EXCEPT !.acc = Append(@,
                                  CollectionSampleData(name,
                                    g.list[g.i].confidence, documents))]) :
                      documents \in SampleDocumentsOutcomes(name, 3) }

\* ---- ObjectIdResolver.resolveObjectIdField, part_002:99-178 ----
NotConnectedResolution ==
  Resolution(GateField, <<>>, <<>>, FALSE, "MongoDB not connected")

resolveObjectIdFieldCall(g) ==
  IF ~isAvailable THEN Return(g, NotConnectedResolution)
  ELSE Await(g, "listCollections")

\* existingCollections, given what listCollections() answered
ExistingAmong(fieldName, availableCollections) ==
  LET Available(col) == arrayIncludes(availableCollections, col)
      mapped == SelectSeq(getPossibleCollections(fieldName), Available)
  IN  IF Len(mapped) = 0
        THEN SelectSeq(inferCollectionFromFieldName(fieldName), Available)
        ELSE mapped

\* the loop over existingCollections, at the call of
\* getObjectIdsFromCollection for collection g.i: getCollection() answers
\* null when unavailable
RECURSIVE resolveObjectIdFieldLoop(_)
resolveObjectIdFieldLoop(g) ==
  IF g.i > Len(g.list)
    THEN UNION { Return(g, Resolution(GateField, top, g.list, TRUE, "")) :
                 top \in {topSuggestions(g.acc, GateLimit)} }
  ELSE IF ~isAvailable
    THEN resolveObjectIdFieldLoop([g EXCEPT !.i = @ + 1])
  ELSE IF LooksForReferences(g.list[g.i], Some(GateCollection))
    THEN Await(g, "references.target")
  ELSE Await([g EXCEPT !.aux = <<>>], "random.find")

resolveObjectIdFieldResume(g, ok) ==
  LET Referencing(doc) == HasObjectIdField(doc, GateField) IN
  CASE g.at = "listCollections" ->
         LET availableCollections == IF ok THEN listCollections ELSE <<>>
             existing == ExistingAmong(GateField, availableCollections)
         IN  IF Len(existing) = 0
               THEN Return(g, Resolution(GateField, <<>>, availableCollections,
                                         TRUE, "No matching collections found"))
               ELSE resolveObjectIdFieldLoop(
                      [g EXCEPT !.list = existing, !.i = 1, !.acc = <<>>])
    [] g.at = "references.target" ->
         IF ok /\ Len(SelectSeq(Documents(GateCollection), Referencing)) > 0
           THEN Await(g, "references.source")
           ELSE Await([g EXCEPT !.aux = <<>>], "random.find")
    [] g.at = "references.source" ->
         LET referencedIds ==
               IF ok THEN findReferencedObjectIds(g.list[g.i], GateCollection,
                                                  GateField, GateLimit)
               ELSE <<>>
         IN  IF Len(referencedIds) >= GateLimit
               THEN resolveObjectIdFieldLoop(
                      [g EXCEPT !.acc = @ \o referencedIds, !.i = @ + 1])
               ELSE Await([g EXCEPT !.aux = referencedIds], "random.find")
    [] OTHER ->
         LET objectIds ==
               IF ok THEN getObjectIdsGiven(g.list[g.i], g.aux, GateLimit)
               ELSE <<>>
         IN  resolveObjectIdFieldLoop(
               [g EXCEPT !.acc = @ \o objectIds, !.i = @ + 1])

GateOps ==
  {"listCollections", "getCollectionsInfo", "getSampleDocuments",
   "findValidObjectIds", "inferSchema", "getCollectionSchema",
   "fetchSampleDataForRoute", "resolveObjectIdField"}

\* the operation from its call to its first await, or to its return
GateEnter(g) ==
  CASE g.op = "listCollections" -> listCollectionsCall(g)
    [] g.op = "getCollectionsInfo" -> getCollectionsInfoCall(g)
    [] g.op = "getSampleDocuments" -> getSampleDocumentsCall(g)
    [] g.op = "findValidObjectIds" -> findValidObjectIdsCall(g)
    [] g.op = "inferSchema" -> inferSchemaCall(g)
    [] g.op = "getCollectionSchema" -> getCollectionSchemaCall(g)
    [] g.op = "fetchSampleDataForRoute" -> fetchSampleDataForRouteCall(g)
    [] OTHER -> resolveObjectIdFieldCall(g)

\* the operation from the settling of the command it awaits (ok: the
\* driver answered, ~ok: it rejected) to its next await, or to its return
GateResume(g, ok) ==
  CASE g.op = "listCollections" -> listCollectionsResume(g, ok)
    [] g.op = "getCollectionsInfo" -> getCollectionsInfoResume(g, ok)
    [] g.op = "getSampleDocuments" -> getSampleDocumentsResume(g, ok)
    [] g.op = "findValidObjectIds" -> findValidObjectIdsResume(g, ok)
    [] g.op = "inferSchema" -> inferSchemaResume(g, ok)
    [] g.op = "getCollectionSchema" -> getCollectionSchemaResume(g, ok)
    [] g.op = "fetchSampleDataForRoute" -> fetchSampleDataForRouteResume(g, ok)
    [] OTHER -> resolveObjectIdFieldResume(g, ok)

\* a caller invokes one of the operations
GateCall(op) ==
  /\ gate.pc \in {"idle", "done"}
  /\ gate' \in GateEnter(GateCalled(op))
  /\ UNCHANGED <<detVars, extract, approach, serviceVars, infer, conf, hybrid, sampler,
                 resolver, mongoVars>>

\* the driver answers the awaited command
GateAnswered ==
  /\ gate.pc = "await"
  /\ gate' \in GateResume(gate, TRUE)
  /\ UNCHANGED <<detVars, extract, approach, serviceVars, infer, conf, hybrid, sampler,
                 resolver, mongoVars>>

\* the driver rejects the awaited command
GateRejected ==
  /\ gate.pc = "await"
  /\ gate' \in GateResume([gate EXCEPT !.rejected = TRUE], FALSE)
  /\ UNCHANGED <<detVars, extract, approach, serviceVars, infer, conf, hybrid, sampler,
                 resolver, mongoVars>>

\* three users and orders that refer to the first of them, to the last, to
\* the last two, to all and to none; orders of which one in three has a
\* userId and two in three a note, one of them null
GateOrders ==
  { <<OrderDoc("o1", ObjectIdV("u1"))>>,
    <<OrderDoc("o1", ObjectIdV("u3"))>>,
    <<OrderDoc("o1", ObjectIdV("u3")), OrderDoc("o2", ObjectIdV("u2"))>>,
    <<OrderDoc("o1", ObjectIdV("u1")), OrderDoc("o2", ObjectIdV("u2")),
      OrderDoc("o3", ObjectIdV("u3"))>>,
    <<OrderDoc("o1", NullV)>>,
    <<OrderDoc("o1", ObjectIdV("u2")), NoteDoc("o2", StringV("hi")),
      NoteDoc("o3", NullV)>> }

GateDatabases ==
  HybridDatabases
    \cup { Database(<<UserDoc("u1", "Ann"), UserDoc("u2", "Bob"),
                       UserDoc("u3", "Cy")>>, TRUE, <<>>, o) :
             o \in GateOrders }

GateInit ==
  /\ mongo \in {Connected, Disconnected}
  /\ db \in GateDatabases
  /\ gate = Idle
  /\ extract = Idle
  /\ approach = Idle
  /\ ServicesQuiet
  /\ DetQuiet /\ InferQuiet /\ ConfQuiet /\ HybridQuiet /\ SamplerQuiet
  /\ ResolverQuiet

GateNext ==
  \/ \E op \in GateOps : GateCall(op)
  \/ GateAnswered
  \/ GateRejected
  \/ MongoConnects
  \/ MongoDisconnects

SpecGate == GateInit /\ [][GateNext]_vars

GateReturned == gate.pc = "done"

\* the value an operation answers when there is no data: the empty list,
\* null, an empty RealDataOptions, success: false
IsNoData(op, result) ==
  CASE op \in {"listCollections", "getCollectionsInfo", "getSampleDocuments",
               "findValidObjectIds"} -> result = <<>>
    [] op \in {"inferSchema", "getCollectionSchema"} -> result = None
    [] op = "fetchSampleDataForRoute" -> result = NoRealData
    [] OTHER -> ~result.success /\ result.suggestedIds = <<>>

\* C11 as stated: an operation called while isAvailable() is false, or torn
\* down by disconnect() while it was suspended at an await, returns its
\* "no data" value and hands no command to the driver (none at all when
\* unavailable at the call, none after the tear-down otherwise).
C11_GatedAlsoWhenTornDown ==
  (GateReturned /\ (~gate.available \/ gate.tornDown)) =>
     /\ IsNoData(gate.op, gate.result)
     /\ gate.late = 0
     /\ ~gate.available => gate.cmds = 0

\* C11, amended: an operation called while isAvailable() is false returns
\* its "no data" value without handing any command to the driver.
C11_UnavailableAtCallMeansNoData ==
  (GateReturned /\ ~gate.available) =>
     /\ IsNoData(gate.op, gate.result)
     /\ gate.cmds = 0

\* resolveObjectIdField was called on an unavailable connection and
\* answered success: false without a command
C11_Witness ==
  /\ GateReturned
  /\ ~gate.available
  /\ gate.op = "resolveObjectIdField"
  /\ gate.result = NotConnectedResolution
  /\ gate.cmds = 0

\* a call torn down while suspended that went on to hand a command to the
\* driver and returned documents
C11_TornDownWitness ==
  /\ GateReturned
  /\ gate.tornDown
  /\ gate.late > 0
  /\ ~IsNoData(gate.op, gate.result)

(***************************************************************************)
(* AIPayloadPredictor.extractControllerContext (src/unnamed/part_007).     *)
(* A file on disk is unreadable, unparsable, or a list of the AST nodes    *)
(* the two traversals of findControllerFunctionInAST visit, in traversal   *)
(* order.  `extract` is one call: the route, the disk it runs on, the      *)
(* files it has read so far and its result.                                *)
(***************************************************************************)
Unreadable == [state |-> "unreadable", nodes |-> <<>>]
Unparsable == [state |-> "unparsable", nodes |-> <<>>]
Parsed(nodes) == [state |-> "parsed", nodes |-> nodes]

\* function name() {} / const name = () => {} (fn) or any other value
FunctionDeclarationNode(name, start, end) ==
  [type |-> "FunctionDeclaration", name |-> name, object |-> "", fn |-> TRUE,
   start |-> start, end |-> end]
VariableDeclaratorNode(name, fn, start, end) ==
  [type |-> "VariableDeclarator", name |-> name, object |-> "", fn |-> fn,
   start |-> start, end |-> end]
\* object.name = <function or not>
AssignmentExpressionNode(object, name, fn, start, end) ==
  [type |-> "AssignmentExpression", name |-> name, object |-> object,
   fn |-> fn, start |-> start, end |-> end]
\* { name(req, res) {} }
ObjectMethodNode(name, start, end) ==
  [type |-> "ObjectMethod", name |-> name, object |-> "", fn |-> TRUE,
   start |-> start, end |-> end]
\* req.body.name
ReqBodyNode(name, line) ==
  [type |-> "MemberExpression", name |-> name, object |-> "req.body",
   fn |-> FALSE, start |-> line, end |-> line]

\* the four visitors of the first traversal, lines 323-376
IsControllerNode(node, targetFunction) ==
  \/ node.type = "FunctionDeclaration" /\ node.name = targetFunction
  \/ /\ node.type = "VariableDeclarator"
     /\ node.name = targetFunction
     /\ node.fn
  \/ /\ node.type = "AssignmentExpression"
     /\ node.object \in {"exports", "module"}
     /\ node.name = targetFunction
     /\ node.fn
  \/ node.type = "ObjectMethod" /\ node.name = targetFunction

\* the first traversal: every match overwrites the one before it
RECURSIVE FindController(_, _, _, _)
FindController(nodes, targetFunction, i, found) ==
  IF i > Len(nodes) THEN found
  ELSE FindController(nodes, targetFunction, i + 1,
         IF IsControllerNode(nodes[i], targetFunction)
           THEN Some(nodes[i]) ELSE found)

\* [...new Set(reqBodyFields)]: first occurrences, in order
RECURSIVE ReqBodyFields(_, _, _)
ReqBodyFields(nodes, i, fields) ==
  IF i > Len(nodes) THEN fields
  ELSE ReqBodyFields(nodes, i + 1,
         IF /\ nodes[i].type = "MemberExpression"
            /\ nodes[i].object = "req.body"
            /\ ~arrayIncludes(fields, nodes[i].name)
           THEN Append(fields, nodes[i].name) ELSE fields)

\* findControllerFunctionInAST, lines 312-400; controllerCode is the lines
\* startLine..endLine of the file the AST was parsed from
findControllerFunctionInAST(nodes, targetFunction, file, route) ==
  LET controllerFunction == FindController(nodes, targetFunction, 1, None)
  IN  IF ~IsSome(controllerFunction) THEN None
      ELSE Some([route |-> route,
                 reqBodyFields |-> ReqBodyFields(nodes, 1, <<>>),
                 controllerCode |-> <<file, Get(controllerFunction).start,
                                      Get(controllerFunction).end>>,
                 functionName |-> Get(controllerFunction).name,
                 startLine |-> Get(controllerFunction).start,
                 endLine |-> Get(controllerFunction).end])

\* readFileSync and parse inside try/catch: anything thrown becomes null
tryExtractFrom(disk, file, targetFunction, route) ==
  IF file \notin DOMAIN disk \/ disk[file].state # "parsed" THEN None
  ELSE findControllerFunctionInAST(disk[file].nodes, targetFunction, file,
                                   route)

\* tryExtractFromSameFile, lines 230-269
tryExtractFromSameFile(disk, route) ==
  tryExtractFrom(disk, route.filePath, route.handler, route)

\* is a value of route.controllerFilePath / controllerFunction truthy
Truthy(v) == v # Null /\ v # ""

\* the test of line 206 with one conjunct lost
SearchesSeparateFile_PathOnly(route) == Truthy(route.controllerFilePath)

\* the test of line 206
SearchesSeparateFile(route) ==
  Truthy(route.controllerFilePath) /\ Truthy(route.controllerFunction)

\* tryExtractFromSeparateFile, lines 271-310
tryExtractFromSeparateFile(disk, route) ==
  IF ~Truthy(route.controllerFilePath) \/ ~Truthy(route.controllerFunction)
    THEN None
  ELSE tryExtractFrom(disk, route.controllerFilePath,
                      route.controllerFunction, route)

\* extractControllerContext up to its first await, lines 192-199
ExtractStart(route, disk) ==
  /\ extract.pc \in {"idle", "done"}
  /\ extract' = [pc |-> "sameFile", route |-> route, disk |-> disk,
                 reads |-> <<route.filePath>>,
                 sameFileContext |-> tryExtractFromSameFile(disk, route),
                 result |-> None]
  /\ UNCHANGED <<detVars, gate, approach, serviceVars, infer, conf, hybrid, mongoVars,
                 sampler, resolver>>

\* lines 200-216: the same-file search has settled
ExtractSameFileSettles ==
  /\ extract.pc = "sameFile"
  /\ extract' =
       IF IsSome(extract.sameFileContext)
         THEN [extract EXCEPT !.pc = "done",
                              !.result = extract.sameFileContext]
       ELSE IF SearchesSeparateFile(extract.route)
         THEN [extract EXCEPT
                 !.pc = "separate",
                 !.reads = Append(@, extract.route.controllerFilePath),
                 !.result = tryExtractFromSeparateFile(extract.disk,
                                                       extract.route)]
       ELSE [extract EXCEPT !.pc = "done", !.result = None]
  /\ UNCHANGED <<detVars, gate, approach, serviceVars, infer, conf, hybrid, mongoVars,
                 sampler, resolver>>

\* lines 210-228: the separate-file search has settled
ExtractSeparateSettles ==
  /\ extract.pc = "separate"
  /\ extract' = [extract EXCEPT !.pc = "done"]
  /\ UNCHANGED <<detVars, gate, approach, serviceVars, infer, conf, hybrid, mongoVars,
                 sampler, resolver>>

ExtractRoute(handler, controllerFilePath, controllerFunction) ==
  [path |-> "/users", method |-> "POST", filePath |-> "routes.js",
   handler |-> handler, controllerFilePath |-> controllerFilePath,
   controllerFunction |-> controllerFunction]

\* routes with and without a controller binding, and one whose binding
\* lacks the function name
ExtractRoutes ==
  { ExtractRoute("createUser", Null, Null),
    ExtractRoute("createUser", "ctrl.js", "createUser"),
    ExtractRoute("userController.createUser", "ctrl.js", "createUser"),
    ExtractRoute("createUser", "ctrl.js", "") }

\* the declaring file
RouteFiles ==
  { Unreadable, Unparsable, Parsed(<<>>),
    Parsed(<<FunctionDeclarationNode("createUser", 3, 6),
             ReqBodyNode("name", 4), ReqBodyNode("email", 5),
             ReqBodyNode("name", 5)>>),
    Parsed(<<VariableDeclaratorNode("createUser", FALSE, 1, 1)>>),
    Parsed(<<VariableDeclaratorNode("createUser", TRUE, 2, 4),
             FunctionDeclarationNode("createUser", 8, 9)>>),
    Parsed(<<AssignmentExpressionNode("exports", "createUser", TRUE, 1, 3)>>),
    Parsed(<<FunctionDeclarationNode("createUser", 3, 6),
             ReqBodyNode("name", 4),
             AssignmentExpressionNode("exports", "createUser", TRUE, 10, 14),
             ReqBodyNode("email", 11)>>),
    Parsed(<<AssignmentExpressionNode("router", "createUser", TRUE, 1, 3),
             ReqBodyNode("name", 2)>>) }

\* the controller file; Unreadable is also a file that is not there
ControllerFiles ==
  { Unreadable, Unparsable,
    Parsed(<<AssignmentExpressionNode("exports", "createUser", TRUE, 5, 9),
             ReqBodyNode("email", 6)>>),
    Parsed(<<ObjectMethodNode("createUser", 2, 3)>>),
    Parsed(<<FunctionDeclarationNode("deleteUser", 1, 2)>>) }

ExtractDisks ==
  { [f \in {"routes.js", "ctrl.js"} |->
       IF f = "routes.js" THEN r ELSE c] :
      r \in RouteFiles, c \in ControllerFiles }

ExtractInit ==
  /\ extract = Idle
  /\ gate = Idle
  /\ approach = Idle
  /\ ServicesQuiet
  /\ DetQuiet /\ InferQuiet /\ ConfQuiet /\ HybridQuiet /\ MongoQuiet
  /\ SamplerQuiet /\ ResolverQuiet

ExtractNext ==
  \/ \E route \in ExtractRoutes, disk \in ExtractDisks :
       ExtractStart(route, disk)
  \/ ExtractSameFileSettles
  \/ ExtractSeparateSettles

SpecExtract == ExtractInit /\ [][ExtractNext]_vars

ExtractReturned == extract.pc = "done"

\* a file that can be read and parsed holds a function named `name` in one
\* of the four shapes the extractor knows
HoldsFunction(disk, file, name) ==
  /\ disk[file].state = "parsed"
  /\ \E i \in 1..Len(disk[file].nodes) :
       IsControllerNode(disk[file].nodes[i], name)

\* C12: extractControllerContext returns the same-file match whenever the
\* declaring file holds a function matching route.handler; it reads the
\* external file only if the same-file search found nothing and the route
\* carries both controllerFilePath and controllerFunction; when neither
\* search resolves, unreadable and unparsable files included, it returns
\* null.
C12_SameFileFirstThenSeparateElseNull ==
  ExtractReturned =>
    LET route == extract.route
        disk == extract.disk
        inSameFile == HoldsFunction(disk, route.filePath, route.handler)
        inSeparateFile ==
          /\ Truthy(route.controllerFilePath)
          /\ Truthy(route.controllerFunction)
          /\ HoldsFunction(disk, route.controllerFilePath,
                           route.controllerFunction)
    IN  /\ inSameFile =>
             /\ IsSome(extract.result)
             /\ Get(extract.result).controllerCode[1] = route.filePath
             /\ Get(extract.result).functionName = route.handler
             /\ extract.reads = <<route.filePath>>
        /\ Len(extract.reads) > 1 =>
             /\ ~inSameFile
             /\ Truthy(route.controllerFilePath)
             /\ Truthy(route.controllerFunction)
             /\ extract.reads = <<route.filePath, route.controllerFilePath>>
        /\ (~inSameFile /\ ~inSeparateFile) => extract.result = None

\* the declaring file could not be parsed and the controller came from the
\* separate file
C12_Witness ==
  /\ ExtractReturned
  /\ extract.disk["routes.js"] = Unparsable
  /\ extract.reads = <<"routes.js", "ctrl.js">>
  /\ IsSome(extract.result)
  /\ Get(extract.result).controllerCode = <<"ctrl.js", 5, 9>>
  /\ Get(extract.result).reqBodyFields = <<"email">>

\* required fields before the others and, within each of the two groups,
\* confidence not increasing
RequiredFirstThenConfidence(fields) ==
  \A i, j \in 1..Len(fields) :
    i < j =>
      /\ fields[j].required => fields[i].required
      /\ (fields[i].required <=> fields[j].required)
           => fields[i].confidence >= fields[j].confidence

\* C13: in every prediction generateHybridPrediction returns, on the normal
\* path and on the fallback path, the fields are ordered required first and
\* then by non-increasing confidence, and a positive options.limitFields
\* bounds the length of the list.
C13_FieldsOrderedAndLimited ==
  HybridReturned =>
    /\ RequiredFirstThenConfidence(hybrid.result.fields)
    /\ hybrid.options.limitFields > 0
         => Len(hybrid.result.fields) <= hybrid.options.limitFields

\* the same on the normal path alone
C13_OrderedAndLimitedUnlessFallback ==
  (HybridReturned /\ ~hybrid.fellBack) =>
    /\ RequiredFirstThenConfidence(hybrid.result.fields)
    /\ hybrid.options.limitFields > 0
         => Len(hybrid.result.fields) <= hybrid.options.limitFields

\* the names the two merge steps go through: the schema's fields, then the
\* LLM's
MergeCandidates ==
  (IF IsSome(hybrid.mongoData) /\ IsSome(Get(hybrid.mongoData).schema)
     THEN { Get(Get(hybrid.mongoData).schema).detailedFields[i].name :
              i \in 1..Len(Get(Get(hybrid.mongoData).schema).detailedFields) }
     ELSE {})
  \cup
  (IF IsSome(hybrid.aiPrediction)
     THEN { Get(hybrid.aiPrediction).fields[i].name :
              i \in 1..Len(Get(hybrid.aiPrediction).fields) }
     ELSE {})

ReturnedNames ==
  { hybrid.result.fields[i].name : i \in 1..Len(hybrid.result.fields) }

\* the merge returned and its limit cut nothing off
MergeReturnedAll ==
  /\ HybridReturned
  /\ ~hybrid.fellBack
  /\ Len(hybrid.result.fields) < hybrid.options.limitFields

\* C14: a field whose name is in options.forceFields is skipped by neither
\* merge step, whatever other skip rule applies to it, the caller's exclude
\* list included.
C14_ForcedFieldsNeverSkipped ==
  MergeReturnedAll =>
    \A name \in MergeCandidates :
      arrayIncludes(hybrid.options.forceFields, name)
        => name \in ReturnedNames

\* the same for the forced names the caller does not exclude as well
C14_ForcedFieldsKeptUnlessExcluded ==
  MergeReturnedAll =>
    \A name \in MergeCandidates :
      (/\ arrayIncludes(hybrid.options.forceFields, name)
       /\ ~arrayIncludes(hybrid.options.excludeFields, name))
        => name \in ReturnedNames

\* _id, forced and not excluded, is in the fields returned for a POST
C14_ForcedIdOnPost ==
  /\ MergeReturnedAll
  /\ hybrid.route.method = Chars("POST")
  /\ hybrid.options.excludeFields = <<>>
  /\ Chars("_id") \in MergeCandidates
  /\ Chars("_id") \in ReturnedNames

(***************************************************************************)
(* determineRecommendedApproach on its own (src/unnamed/part_005:527-557)  *)
(***************************************************************************)
ApproachAiPredictions ==
  { None, Some([fields |-> <<>>]),
    Some([fields |-> <<AiField("total", Some(Chars("number")), TRUE)>>]) }

\* getMongoData's answer as far as the recommendation reads it: null, or a
\* primary with its samples and the confidence of the inferred collection
ApproachMongoData ==
  {None} \cup
  { Some([primary |-> [samples |-> samples, confidence |-> confidence]]) :
      samples \in {<<>>, <<"doc">>},
      confidence \in {0, 300, 600, 601, 900, 1000} }

ApproachOptions ==
  { [getDefaultOptions EXCEPT !.preferRealData = p] : p \in BOOLEAN }

DetermineRecommendedApproach ==
  /\ approach.pc = "ready"
  /\ approach' = [approach EXCEPT
                    !.pc = "done",
                    !.result = determineRecommendedApproach(
                                 approach.aiPrediction, approach.mongoData,
                                 approach.options)]
  /\ UNCHANGED <<detVars, gate, extract, serviceVars, infer, conf, hybrid, mongoVars,
                 sampler, resolver>>

ApproachInit ==
  /\ \E a \in ApproachAiPredictions, m \in ApproachMongoData,
        o \in ApproachOptions :
       approach = [pc |-> "ready", aiPrediction |-> a, mongoData |-> m,
                   options |-> o, result |-> ""]
  /\ gate = Idle /\ extract = Idle /\ ServicesQuiet
  /\ DetQuiet /\ InferQuiet /\ ConfQuiet /\ HybridQuiet /\ MongoQuiet
  /\ SamplerQuiet /\ ResolverQuiet

ApproachNext == DetermineRecommendedApproach

SpecApproach == ApproachInit /\ [][ApproachNext]_vars

\* the four inputs of the table
LlmHasFields ==
  IsSome(approach.aiPrediction) /\ Get(approach.aiPrediction).fields # <<>>
SamplesExist ==
  IsSome(approach.mongoData)
    /\ Get(approach.mongoData).primary.samples # <<>>
PrefersRealData == approach.options.preferRealData
ConfidenceAbove ==
  IsSome(approach.mongoData)
    /\ Get(approach.mongoData).primary.confidence > 600

\* C15 as stated: "mongo-only" when the LLM produced nothing and samples
\* exist; "ai-only" when samples are absent; with both, "hybrid" if the
\* caller prefers real data and the confidence is above 0.6, and "ai-only"
\* if the caller does not prefer real data and the confidence is not above
\* 0.6.  (preferRealData is a boolean: a caller without a preference is one
\* that does not prefer real data.)
C15_ApproachTableAsStated ==
  approach.pc = "done" =>
    /\ (~LlmHasFields /\ SamplesExist) => approach.result = "mongo-only"
    /\ ~SamplesExist => approach.result = "ai-only"
    /\ (LlmHasFields /\ SamplesExist /\ PrefersRealData /\ ConfidenceAbove)
         => approach.result = "hybrid"
    /\ (LlmHasFields /\ SamplesExist /\ ~PrefersRealData /\ ~ConfidenceAbove)
         => approach.result = "ai-only"

\* C15, amended: with both sources, "hybrid" if the caller prefers real
\* data and the confidence is above 0.6 or if the caller does not prefer
\* real data, and "ai-only" if the caller prefers real data and the
\* confidence is not above 0.6; the other rows as stated.
C15_ApproachTable ==
  approach.pc = "done" =>
    /\ (~LlmHasFields /\ SamplesExist) => approach.result = "mongo-only"
    /\ ~SamplesExist => approach.result = "ai-only"
    /\ (LlmHasFields /\ SamplesExist /\ PrefersRealData /\ ConfidenceAbove)
         => approach.result = "hybrid"
    /\ (LlmHasFields /\ SamplesExist /\ ~PrefersRealData)
         => approach.result = "hybrid"
    /\ (LlmHasFields /\ SamplesExist /\ PrefersRealData /\ ~ConfidenceAbove)
         => approach.result = "ai-only"

\* both sources, real data preferred, confidence exactly 0.6: "ai-only"
C15_Witness ==
  /\ approach.pc = "done"
  /\ LlmHasFields /\ SamplesExist /\ PrefersRealData
  /\ Get(approach.mongoData).primary.confidence = 600
  /\ approach.result = "ai-only"

\* the try block is past its await: the recommendation and the merge have
\* run
HybridPastAwait == hybrid.pc \in {"fallback", "done"}

\* C16: the merge and the strategy recommendation start only after both
\* the LLM prediction and the database retrieval have settled, whichever
\* settles first and also when either fails; a call made while the
\* connection is unavailable has its database path settled from the start,
\* to "no data", and getMongoData is never called.
C16_MergeAfterBothSettled ==
  /\ HybridPastAwait => (hybrid.aiSettled /\ hybrid.mongoSettled)
  /\ (hybrid.pc # "idle" /\ ~hybrid.hasMongoConnection) =>
       /\ hybrid.mongoSettled
       /\ hybrid.mongoData = None
       /\ hybrid.mongoCalls = 0

\* the database retrieval failed and settled first, the LLM prediction
\* settled after it, then the merge ran
C16_Witness ==
  /\ HybridReturned
  /\ ~hybrid.fellBack
  /\ hybrid.hasMongoConnection
  /\ hybrid.first = "mongo"
  /\ hybrid.mongoCalls = 1
  /\ hybrid.mongoData = None
  /\ IsSome(hybrid.aiPrediction)
  /\ Len(hybrid.result.fields) > 0

\* C18: during one generateHybridPrediction call the LLM predictor is
\* invoked at most once, also when its call returns null and when a later
\* step (merge, real-value lookup, ObjectId resolution) fails.
C18_PredictorInvokedAtMostOnce ==
  hybrid.pc # "idle" => hybrid.aiCalls <= 1

\* the same as long as the try block does not throw
C18_PredictorInvokedOnceUnlessFallback ==
  (hybrid.pc # "idle" /\ ~hybrid.fellBack) => hybrid.aiCalls <= 1

Boost(sum, applies, by) == IF applies THEN FloatAdd(sum, by) ELSE sum

\* the formula of the specification for one merged field, its terms added
\* in the order they are written
StatedConfidence(field, aiFields) ==
  LET llmField == FindAiField(aiFields, field.name)
      schemaField == field.mongoFieldInfo
      hasSchema == IsSome(schemaField)
      hasLlm == IsSome(llmField)
      s1 == Boost(500, hasSchema, 300)
      s2 == Boost(s1, hasSchema /\ Get(schemaField).frequency > 80, 100)
      s3 == Boost(s2, hasSchema /\ Get(schemaField).isRequired, 100)
      s4 == Boost(s3, hasLlm, 200)
      s5 == Boost(s4, hasLlm /\ Get(llmField).required, 100)
      s6 == Boost(s5, Len(Get(field.realValues)) > 0, 200)
      s7 == Boost(s6, /\ hasSchema /\ hasLlm
                      /\ Get(llmField).type # Some(Get(schemaField).type),
                  -100)
  IN  Min(Max(s7, 100), 1000)

\* mergeFieldPredictions has gone through its two loops
HybridHasMerged == hybrid.pc \in {"fallback", "done"}

LlmFieldsOfCall ==
  IF IsSome(hybrid.aiPrediction) /\ ~hybrid.fellBack
    THEN Get(hybrid.aiPrediction).fields ELSE <<>>

\* C20 as stated: every field of the merged list, schema-derived or
\* LLM-only, has the confidence of the formula.
C20_EveryMergedFieldFollowsFormula ==
  (HybridHasMerged /\ ~hybrid.fellBack) =>
    \A i \in 1..Len(hybrid.merged) :
      hybrid.merged[i].confidence
        = StatedConfidence(hybrid.merged[i], LlmFieldsOfCall)

\* C20, amended: a schema-derived field of step 1 has the confidence of the
\* formula; an LLM-only field of step 2 has 0.8 if real sampled values were
\* found for it and 0.6 otherwise; a returned field has the confidence the
\* merge gave it, or the larger of that and 0.8 once ObjectId resolution
\* has resolved it.
C20_SchemaFieldsFollowFormula ==
  (HybridHasMerged /\ ~hybrid.fellBack) =>
    /\ \A i \in 1..Len(hybrid.merged) :
         LET field == hybrid.merged[i] IN
           IF IsSome(field.mongoFieldInfo)
             THEN field.confidence = StatedConfidence(field, LlmFieldsOfCall)
             ELSE field.confidence
                    = IF Len(Get(field.realValues)) > 0 THEN 800 ELSE 600
    /\ \A i \in 1..Len(hybrid.result.fields) :
         \E j \in 1..Len(hybrid.merged) :
           /\ hybrid.merged[j].name = hybrid.result.fields[i].name
           /\ \/ hybrid.result.fields[i].confidence
                   = hybrid.merged[j].confidence
              \/ /\ hybrid.result.fields[i].confidence
                      = Max(hybrid.merged[j].confidence, 800)
                 /\ hybrid.result.fields[i].hasRealData

\* a merged list with a schema-derived field that the LLM predicted too and
\* a required LLM-only field without real values: 0.6, where the formula
\* gives 0.5 + 0.2 + 0.1
C20_Witness ==
  /\ HybridReturned
  /\ ~hybrid.fellBack
  /\ \E i, j \in 1..Len(hybrid.merged) :
       /\ IsSome(hybrid.merged[i].mongoFieldInfo)
       /\ hybrid.merged[i].source = "hybrid"
       /\ hybrid.merged[i].confidence
            = StatedConfidence(hybrid.merged[i], LlmFieldsOfCall)
       /\ hybrid.merged[j].mongoFieldInfo = None
       /\ hybrid.merged[j].confidence = 600
       /\ hybrid.merged[j].required
       /\ StatedConfidence(hybrid.merged[j], LlmFieldsOfCall) = 799

(***************************************************************************)
(* RouteDetector: failing files and the order of the files                 *)
(***************************************************************************)
\* a call the route visitor takes for a route registration
IsRouteCall(call) ==
  /\ call.calleeType = "MemberExpression"
  /\ call.propertyType = "Identifier"
  /\ arrayIncludes(httpMethods, toLowerCase(call.property))
  /\ Len(call.arguments) > 0
  /\ call.arguments[1].type = "StringLiteral"

\* a call on which the route visitor throws: a method of the seven names
\* called without arguments
IsThrowingCall(call) ==
  /\ call.calleeType = "MemberExpression"
  /\ call.propertyType = "Identifier"
  /\ arrayIncludes(httpMethods, toLowerCase(call.property))
  /\ Len(call.arguments) = 0

\* processing of the file fails: it cannot be read, it does not parse, or
\* a traversal throws
ProcessingFails(file) ==
  \/ ~file.readable
  \/ ~file.parses
  \/ \E i \in 1..Len(file.calls) : IsThrowingCall(file.calls[i])

\* C17: if processing of a file fails at any point, the list detectRoutes()
\* returns holds no route of that file, and holds a route for every route
\* registration of every other file.
C17_FailedFileLeavesNoRoute ==
  \A c \in Callers :
    (scan[c].pc = "done" /\ Undisturbed(c)) =>
      \A f \in 1..Len(files) :
        IF ProcessingFails(files[f])
          THEN \A r \in SeqToSet(scan[c].result) :
                 r.filePath # files[f].path
          ELSE \A i \in 1..Len(files[f].calls) :
                 IsRouteCall(files[f].calls[i]) =>
                   \E r \in SeqToSet(scan[c].result) :
                     /\ r.filePath = files[f].path
                     /\ r.line = files[f].calls[i].line

\* the same for the files that cannot be read or do not parse
C17_UnparsedFileLeavesNoRoute ==
  \A c \in Callers :
    (scan[c].pc = "done" /\ Undisturbed(c)) =>
      \A f \in 1..Len(files) :
        IF ~files[f].readable \/ ~files[f].parses
          THEN \A r \in SeqToSet(scan[c].result) :
                 r.filePath # files[f].path
          ELSE ~ProcessingFails(files[f]) =>
                 \A i \in 1..Len(files[f].calls) :
                   IsRouteCall(files[f].calls[i]) =>
                     \E r \in SeqToSet(scan[c].result) :
                       /\ r.filePath = files[f].path
                       /\ r.line = files[f].calls[i].line

\* the files in another order
Reordered(fs, p) == [i \in 1..Len(fs) |-> fs[p[i]]]

\* C19: the routes detectRoutes() reports, with their full paths and
\* controller bindings, do not depend on the order in which the files are
\* processed.
C19_RoutesIndependentOfFileOrder ==
  \A c \in Callers :
    (scan[c].pc = "done" /\ Undisturbed(c)) =>
      \A p \in Permutations(1..Len(files)) :
        SeqToSet(UndisturbedScan(Reordered(files, p)))
          = SeqToSet(scan[c].result)

\* the file and the name the search that produced extract.result looked for
SearchedFile ==
  IF Len(extract.reads) = 1 THEN extract.route.filePath
  ELSE extract.route.controllerFilePath
SearchedFunction ==
  IF Len(extract.reads) = 1 THEN extract.route.handler
  ELSE extract.route.controllerFunction

\* the positions, in traversal order, of the constructs of the searched file
\* that match the searched name under one of the four patterns
MatchesInSearchedFile ==
  { i \in 1..Len(extract.disk[SearchedFile].nodes) :
      IsControllerNode(extract.disk[SearchedFile].nodes[i], SearchedFunction) }

\* the context's functionName, startLine, endLine and controllerCode are
\* those of the node at position i of the searched file
ContextIsOfMatch(i) ==
  LET node == extract.disk[SearchedFile].nodes[i]
      context == Get(extract.result)
  IN  /\ context.functionName = node.name
      /\ context.startLine = node.start
      /\ context.endLine = node.end
      /\ context.controllerCode = <<SearchedFile, node.start, node.end>>

Lowest(S) == CHOOSE i \in S : \A j \in S : i <= j
Highest(S) == CHOOSE i \in S : \A j \in S : i >= j

\* C21: when several constructs of the searched file match the target
\* function name, the returned context's functionName, startLine, endLine and
\* controllerCode are those of the first match in traversal order.
C21_FirstMatchWins ==
  (ExtractReturned /\ IsSome(extract.result)) =>
    ContextIsOfMatch(Lowest(MatchesInSearchedFile))

\* what the traversal of lines 325-377 does: the context is that of the last
\* match in traversal order
C21_LastMatchWins ==
  (ExtractReturned /\ IsSome(extract.result)) =>
    ContextIsOfMatch(Highest(MatchesInSearchedFile))

\* a file with a function declaration and, further on, an exports assignment
\* of the same name: the context is the assignment's
C21_SeveralMatches ==
  /\ ExtractReturned
  /\ IsSome(extract.result)
  /\ Cardinality(MatchesInSearchedFile) > 1
  /\ Get(extract.result).startLine = 10
  /\ Get(extract.result).endLine = 14

\* a findValidObjectIds call that found the connection available and had
\* every command answered
FindValidObjectIdsAnswered ==
  /\ GateReturned
  /\ gate.op = "findValidObjectIds"
  /\ gate.available
  /\ ~gate.rejected

NoIdTwice(ids) ==
  \A i, j \in 1..Len(ids) : ids[i] = ids[j] => i = j

\* C22: findValidObjectIds never returns more than limit identifiers nor the
\* same identifier twice, and when fewer than limit referenced identifiers
\* are found it pads with other identifiers of relatedCollection, so that
\* the result holds min(limit, number of related documents fetched)
\* identifiers wherever the referenced documents sit in the fetched list.
C22_BoundedDistinctAndFilledUp ==
  FindValidObjectIdsAnswered =>
    /\ Len(gate.result) <= GateLimit
    /\ NoIdTwice(gate.result)
    /\ Len(gate.result) = Min(GateLimit, Len(gate.list))

\* what holds of every call: at most limit identifiers, none twice, each of
\* them fetched from relatedCollection, the referenced ones first
C22_BoundedAndDistinct ==
  FindValidObjectIdsAnswered =>
    /\ Len(gate.result) <= GateLimit
    /\ NoIdTwice(gate.result)
    /\ \A i \in 1..Len(gate.result) : arrayIncludes(gate.list, gate.result[i])
    /\ SubSeq(gate.result, 1, Len(gate.acc)) = gate.acc

\* the only referenced user is the first one fetched: nothing is added to
\* it although two more identifiers were fetched
C22_ReferencedFirst ==
  /\ FindValidObjectIdsAnswered
  /\ Len(gate.list) = 3
  /\ gate.result = <<"u1">>

\* the only referenced user is the last one fetched: the list is filled up
C22_ReferencedLast ==
  /\ FindValidObjectIdsAnswered
  /\ Len(gate.list) = 3
  /\ gate.result = <<"u3", "u1">>

\* a getCollectionSchema call that returned a schema with analysed fields
SchemaReturned ==
  /\ GateReturned
  /\ gate.op = "getCollectionSchema"
  /\ IsSome(gate.result)
  /\ Len(Get(gate.result).detailedFields) > 0

\* the analysed sample documents that contain the field with a non-null
\* value
ContainingNonNull(sampleDocuments, fieldName) ==
  { k \in 1..Len(sampleDocuments) :
      /\ DocHas(sampleDocuments[k], fieldName)
      /\ Get(DocGet(sampleDocuments[k], fieldName)).t # "null" }

\* the analysed sample documents that hold the field with the value null
HoldingNull(sampleDocuments, fieldName) ==
  { k \in 1..Len(sampleDocuments) :
      /\ DocHas(sampleDocuments[k], fieldName)
      /\ Get(DocGet(sampleDocuments[k], fieldName)).t = "null" }

\* C23: for every DetailedSchemaField getCollectionSchema returns, frequency
\* is the rounded percentage of the analysed sample documents that contain
\* the field with a non-null value, a document lacking the field counting as
\* not containing it; frequency is within 0..100 and isRequired is true
\* exactly when frequency > 90.
C23_FrequencyCountsContainingDocuments ==
  SchemaReturned =>
    \A i \in 1..Len(Get(gate.result).detailedFields) :
      LET field == Get(gate.result).detailedFields[i]
          sampleDocuments == gate.aux.sampleDocuments
      IN  /\ field.frequency =
               RoundPercent(
                 Cardinality(ContainingNonNull(sampleDocuments, field.name)),
                 Len(sampleDocuments))
          /\ field.frequency \in 0..100
          /\ field.isRequired <=> field.frequency > 90

\* what the analysis computes: the rounded percentage of the analysed sample
\* documents that do not hold the field with the value null
C23_FrequencyCountsAllButNulls ==
  SchemaReturned =>
    \A i \in 1..Len(Get(gate.result).detailedFields) :
      LET field == Get(gate.result).detailedFields[i]
          sampleDocuments == gate.aux.sampleDocuments
      IN  /\ field.frequency =
               RoundPercent(
                 Len(sampleDocuments)
                   - Cardinality(HoldingNull(sampleDocuments, field.name)),
                 Len(sampleDocuments))
          /\ field.frequency \in 0..100
          /\ field.isRequired <=> field.frequency > 90

\* userId is in one analysed document of three and is reported with
\* frequency 100, required
C23_RareFieldRequired ==
  /\ SchemaReturned
  /\ Len(gate.aux.sampleDocuments) = 3
  /\ \E i \in 1..Len(Get(gate.result).detailedFields) :
       LET field == Get(gate.result).detailedFields[i]
       IN  /\ field.name = Chars("userId")
           /\ Cardinality(ContainingNonNull(gate.aux.sampleDocuments,
                                            field.name)) = 1
           /\ field.frequency = 100
           /\ field.isRequired

(***************************************************************************)
(* HybridPayloadGenerator.generatePayload (src/unnamed/part_005:641-679).  *)
(* A JavaScript value is its type tag and, for a string, its characters;   *)
(* the payload is the list of its properties in insertion order.           *)
(* `payload` is one call: the prediction, the options and the result.      *)
(***************************************************************************)
Str(text) == [t |-> "string", s |-> Chars(text)]
Num(text) == [t |-> "number", s |-> Chars(text)]
Undefined == [t |-> "undefined", s |-> <<>>]
JsNull == [t |-> "null", s |-> <<>>]

\* the placeholder of line 667
PlaceholderObjectId == Str("507f1f77bcf86cd799439011")

HexDigits ==
  {"0", "1", "2", "3", "4", "5", "6", "7", "8", "9",
   "a", "b", "c", "d", "e", "f", "A", "B", "C", "D", "E", "F"}

\* a string of 24 hexadecimal digits
IsHex24(value) ==
  /\ value.t = "string"
  /\ Len(value.s) = 24
  /\ \A i \in 1..Len(value.s) : value.s[i] \in HexDigits

\* the date strings of the model that new Date() can read, with their
\* toISOString(); on any other string toISOString() throws a RangeError
IsoOf(s) ==
  IF s = Chars("2024-01-01") THEN Some(Chars("2024-01-01T00:00:00.000Z"))
  ELSE None

\* payload[name] = value
ObjectSet(object, name, value) ==
  IF \E i \in 1..Len(object) : object[i][1] = name
    THEN [i \in 1..Len(object) |->
            IF object[i][1] = name THEN <<name, value>> ELSE object[i]]
    ELSE Append(object, <<name, value>>)

\* lines 650-659: the first real value if asked for and there, else the
\* example
ChosenValue(field, options) ==
  IF /\ options.preferRealData
     /\ field.hasRealData
     /\ Len(field.realValues) > 0
    THEN field.realValues[1]
    ELSE field.example

\* lines 662-671: the value put in the payload, None when toISOString()
\* throws
PayloadValue(field, value) ==
  IF includes(field.type, Chars("Date")) /\ value.t = "string"
    THEN (IF IsSome(IsoOf(value.s))
            THEN Some([t |-> "string", s |-> Get(IsoOf(value.s))])
            ELSE None)
  ELSE IF /\ includes(field.type, Chars("ObjectId"))
          /\ value.t = "string"
          /\ Len(value.s) # 24
    THEN Some(PlaceholderObjectId)
  ELSE Some(value)

\* generatePayload, lines 641-679: Some(payload), or None when it throws
RECURSIVE generatePayloadFrom(_, _, _, _)
generatePayloadFrom(fields, options, i, object) ==
  IF i > Len(fields) THEN Some(object)
  ELSE LET value == PayloadValue(fields[i], ChosenValue(fields[i], options))
       IN  IF ~IsSome(value) THEN None
           ELSE generatePayloadFrom(fields, options, i + 1,
                                    ObjectSet(object, fields[i].name,
                                              Get(value)))

generatePayload(prediction, options) ==
  generatePayloadFrom(prediction.fields, options, 1, <<>>)

GeneratePayload ==
  /\ payload.pc = "ready"
  /\ payload' = [payload EXCEPT
                   !.pc = "done",
                   !.result = generatePayload(payload.prediction,
                                              payload.options)]
  /\ UNCHANGED <<detVars, gate, extract, approach, snap, backend, overlap,
                 connects, infer, conf, hybrid, mongoVars, sampler, resolver>>

\* the values a field's example or real values may be: an identifier's 24
\* digits, a short string, 24 characters that are not all hexadecimal, a
\* date, a number, null, and no value at all
PayloadValues ==
  { Str("507f191e810c19729de860ea"), Str("abc"),
    Str("zzzzzzzzzzzzzzzzzzzzzzzz"), Str("2024-01-01"), Num("42"), JsNull,
    Undefined }

PayloadTypes ==
  { Chars("ObjectId"), Chars("string | ObjectId"), Chars("ObjectId | Date"),
    Chars("string") }

PayloadField(name, type, example, hasRealData, realValues) ==
  [name |-> Chars(name), type |-> type, example |-> example,
   hasRealData |-> hasRealData, realValues |-> realValues]

\* predictions of one field, and of two with a plain string field first
PayloadPredictions ==
  LET one == { PayloadField("userId", type, example, hasRealData, realValues) :
                 type \in PayloadTypes, example \in PayloadValues,
                 hasRealData \in BOOLEAN,
                 realValues \in {<<>>} \cup { <<v>> : v \in PayloadValues } }
  IN  { [fields |-> <<f>>] : f \in one }
        \cup { [fields |-> <<PayloadField("note", Chars("string"), Str("hi"),
                                         FALSE, <<>>), f>>] :
                 f \in { g \in one : g.realValues = <<>> } }

PayloadInit ==
  /\ \E prediction \in PayloadPredictions, preferRealData \in BOOLEAN :
       payload = [pc |-> "ready", prediction |-> prediction,
                  options |-> [getDefaultOptions EXCEPT
                                 !.preferRealData = preferRealData],
                  result |-> None]
  /\ gate = Idle /\ extract = Idle /\ approach = Idle
  /\ snap = Idle /\ backend = Idle /\ overlap = Idle /\ connects = Idle
  /\ DetQuiet /\ InferQuiet /\ ConfQuiet /\ HybridQuiet /\ MongoQuiet
  /\ SamplerQuiet /\ ResolverQuiet

PayloadNext == GeneratePayload

SpecPayload == PayloadInit /\ [][PayloadNext]_vars

PayloadReturned == payload.pc = "done" /\ IsSome(payload.result)

\* the value the payload holds under a name
PayloadGet(object, name) ==
  object[CHOOSE i \in 1..Len(object) : object[i][1] = name][2]

\* C24: for every field whose type mentions ObjectId, the value
\* generatePayload puts in the payload is a valid 24-character hexadecimal
\* identifier or the placeholder 507f1f77bcf86cd799439011; a chosen value
\* of the wrong length, with non-hex characters or that is not a string is
\* never emitted.
C24_ReferenceValueValidOrPlaceholder ==
  PayloadReturned =>
    \A i \in 1..Len(payload.prediction.fields) :
      LET field == payload.prediction.fields[i]
          value == PayloadGet(Get(payload.result), field.name)
      IN  includes(field.type, Chars("ObjectId")) =>
            IsHex24(value) \/ value = PlaceholderObjectId

\* what the test of lines 662-665 guarantees: under a type that mentions
\* ObjectId and not Date, a string that is emitted has 24 characters, and a
\* chosen string of another length is replaced by the placeholder
C24_ReferenceStringHas24Characters ==
  PayloadReturned =>
    \A i \in 1..Len(payload.prediction.fields) :
      LET field == payload.prediction.fields[i]
          chosen == ChosenValue(field, payload.options)
          value == PayloadGet(Get(payload.result), field.name)
      IN  (/\ includes(field.type, Chars("ObjectId"))
           /\ ~includes(field.type, Chars("Date"))) =>
            /\ value.t = "string" => Len(value.s) = 24
            /\ (chosen.t = "string" /\ Len(chosen.s) # 24)
                 => value = PlaceholderObjectId
            /\ (chosen.t # "string" \/ Len(chosen.s) = 24) => value = chosen

\* a reference field whose real value is 24 characters that are not
\* hexadecimal digits reaches the payload unchanged
C24_NonHexEmitted ==
  /\ PayloadReturned
  /\ Len(payload.prediction.fields) = 1
  /\ payload.prediction.fields[1].type = Chars("ObjectId")
  /\ Get(payload.result) =
       <<<<Chars("userId"), Str("zzzzzzzzzzzzzzzzzzzzzzzz")>>>>

\* a short string was replaced by the placeholder
C24_ShortStringReplaced ==
  /\ PayloadReturned
  /\ ChosenValue(payload.prediction.fields[1], payload.options) = Str("abc")
  /\ Get(payload.result) = <<<<Chars("userId"), PlaceholderObjectId>>>>

(***************************************************************************)
(* SnapshotService (src/conduit/src/services/snapshotService.ts).          *)
(* `snap` is the service with the timers of the runtime: `timers` are the  *)
(* pending setTimeout timers (`left` ticks to go), `snapshotTimeouts` the  *)
(* service's map from file path to timer, `acts` the handler and           *)
(* createSnapshotsForFile activations suspended at an await.  Time moves   *)
(* in ticks; a due timer fires before anything else happens.  The rest of  *)
(* the record counts what has happened: change events per file (all, and   *)
(* those the handler accepted), the bursts they form, the timers           *)
(* scheduled, which events ran createSnapshotsForFile, whether the         *)
(* predictor was called and whether a request was sent.                    *)
(***************************************************************************)
\* config.debounceMs, in ticks
DebounceTicks == 2

\* file events of one behaviour
MaxEvents == 3

SnapFiles == {"routes.js", "app.js"}

\* the file open in the editor
EditedFile == "routes.js"

Never == DebounceTicks + 1

SnapStarted(token) ==
  [token |-> token, disposed |-> FALSE, events |-> 0,
   timers |-> {}, snapshotTimeouts |-> <<>>, acts |-> EmptyBag,
   content |-> [f \in SnapFiles |-> 0], lastSnapshots |-> <<>>,
   sinceAny |-> [f \in SnapFiles |-> Never],
   sinceAccepted |-> [f \in SnapFiles |-> Never],
   burstsAny |-> [f \in SnapFiles |-> 0],
   burstsAccepted |-> [f \in SnapFiles |-> 0],
   accepted |-> [f \in SnapFiles |-> 0],
   timerRuns |-> [f \in SnapFiles |-> 0],
   lastFire |-> [f \in SnapFiles |-> <<>>],
   scheduled |-> 0,
   ranBy |-> {}, predictCalled |-> FALSE, requestSent |-> FALSE]

\* !this.apiService.isAuthenticated(), line 97: isAuthenticated() is async,
\* so the operand is a Promise, which is truthy whatever it resolves to
NotOfIsAuthenticated(token) == FALSE

\* what isAuthenticated() resolves to, lines 542-556
isAuthenticated(token) == token

\* lines 103-106 without the clearTimeout
clearExisting_Kept(timers, snapshotTimeouts, filePath) == timers

\* lines 103-106: the timer the map holds for the file is cleared
clearExisting(timers, snapshotTimeouts, filePath) ==
  IF MapHas(snapshotTimeouts, filePath)
    THEN { t \in timers : t.id # snapshotTimeouts[filePath] }
    ELSE timers

\* handleFileChange, lines 91-115; processable: shouldProcessFile(uri),
\* enabled: config.enabled
handleFileChange(s, filePath, processable, enabled) ==
  IF ~processable THEN s
  ELSE IF ~enabled \/ NotOfIsAuthenticated(s.token) THEN s
  ELSE [s EXCEPT
          !.timers = clearExisting(s.timers, s.snapshotTimeouts, filePath)
                       \cup {[id |-> s.scheduled + 1, file |-> filePath,
                              left |-> DebounceTicks]},
          !.snapshotTimeouts = MapSet(@, filePath, s.scheduled + 1),
          !.scheduled = @ + 1]

\* dispose, lines 325-329
dispose(s) ==
  [s EXCEPT
     !.timers = { t \in s.timers :
                    \A f \in DOMAIN s.snapshotTimeouts :
                      s.snapshotTimeouts[f] # t.id },
     !.snapshotTimeouts = <<>>]

MapDelete(m, k) == [x \in (DOMAIN m) \ {k} |-> m[x]]

\* the activations are a bag: their order is of no consequence
Suspend(acts, act) == acts (+) SetToBag({act})
Resume(acts, act) == acts (-) SetToBag({act})

\* createSnapshotsForFile up to its await of detectRoutesInFile, lines
\* 172-178; readFileSync may throw, which the catch of line 195 swallows
createSnapshotsForFile(s, filePath, force, by, readable) ==
  LET ran == [s EXCEPT !.ranBy = @ \cup {by}]
  IN  IF ~readable THEN ran
      ELSE [ran EXCEPT !.acts = Suspend(@, [pc |-> "detect", file |-> filePath,
                                            force |-> force, by |-> by,
                                            content |-> s.content[filePath]])]

snapOthers ==
  <<detVars, gate, extract, approach, payload, backend, overlap, connects,
    infer, conf, hybrid, mongoVars, sampler, resolver>>

NoTimerDue == \A t \in snap.timers : t.left > 0

CanHappen ==
  /\ snap # Idle
  /\ ~snap.disposed
  /\ snap.events < MaxEvents
  /\ NoTimerDue

\* the watcher reports a change to, or the creation of, a file
SnapFileChanged(f, processable, enabled) ==
  /\ CanHappen
  /\ LET handled == handleFileChange(snap, f, processable, enabled)
         isAccepted == processable /\ enabled
     IN  snap' =
           [handled EXCEPT
              !.events = @ + 1,
              !.content[f] = @ + 1,
              !.sinceAny[f] = 0,
              !.burstsAny[f] =
                 IF snap.sinceAny[f] >= DebounceTicks THEN @ + 1 ELSE @,
              !.sinceAccepted[f] = IF isAccepted THEN 0 ELSE @,
              !.accepted[f] = IF isAccepted THEN @ + 1 ELSE @,
              !.burstsAccepted[f] =
                 IF isAccepted /\ snap.sinceAccepted[f] >= DebounceTicks
                   THEN @ + 1 ELSE @]
  /\ UNCHANGED snapOthers

\* a timer set by handleFileChange fires, lines 108-111
SnapTimerFires ==
  /\ snap # Idle
  /\ \E t \in snap.timers, readable \in BOOLEAN :
       /\ t.left = 0
       /\ LET ran == createSnapshotsForFile(snap, t.file, FALSE, "timer",
                                            readable)
          IN  snap' =
                [ran EXCEPT
                   !.timers = @ \ {t},
                   !.snapshotTimeouts = MapDelete(@, t.file),
                   !.timerRuns[t.file] = @ + 1,
                   !.lastFire[t.file] =
                      <<snap.sinceAny[t.file], snap.sinceAccepted[t.file]>>]
  /\ UNCHANGED snapOthers

\* handleDocumentSave / handleActiveEditorChange up to the await of
\* isAuthenticated(), lines 117-139
SnapSavedOrSwitched(f, by, processable) ==
  /\ CanHappen
  /\ snap' =
       [snap EXCEPT
          !.events = @ + 1,
          !.acts = IF processable
                     THEN Suspend(@, [pc |-> "auth", file |-> f,
                                      force |-> by = "save", by |-> by,
                                      content |-> 0])
                     ELSE @]
  /\ UNCHANGED snapOthers

\* isAuthenticated() has resolved, lines 123-126 and 135-138
SnapAuthResolved ==
  /\ snap # Idle
  /\ \E act \in BagToSet(snap.acts), readable \in BOOLEAN :
       /\ act.pc = "auth"
       /\ LET rest == [snap EXCEPT !.acts = Resume(@, act)]
          IN  snap' =
                IF isAuthenticated(snap.token)
                  THEN createSnapshotsForFile(rest, act.file, act.force,
                                              act.by, readable)
                  ELSE rest
  /\ UNCHANGED snapOthers

\* detectRoutesInFile has resolved: lines 180-191 and, for the route of the
\* file, createSnapshotForRoute up to its await of predict, lines 199-219
SnapDetected ==
  /\ snap # Idle
  /\ \E act \in BagToSet(snap.acts), hasRoutes \in BOOLEAN :
       /\ act.pc = "detect"
       /\ LET cached == /\ ~act.force
                        /\ MapHas(snap.lastSnapshots, act.file)
                        /\ snap.lastSnapshots[act.file] = act.content
          IN  snap' =
                IF ~hasRoutes \/ cached
                  THEN [snap EXCEPT !.acts = Resume(@, act)]
                  ELSE [snap EXCEPT
                          !.acts = Suspend(Resume(@, act),
                                           [act EXCEPT !.pc = "predict"]),
                          !.predictCalled = TRUE]
  /\ UNCHANGED snapOthers

\* predict has settled: lines 220-247, to the request createSnapshot sends;
\* statSync may throw, which the catch of line 256 swallows
SnapPredicted ==
  /\ snap # Idle
  /\ \E act \in BagToSet(snap.acts), statable \in BOOLEAN :
       /\ act.pc = "predict"
       /\ snap' =
            IF ~statable THEN [snap EXCEPT !.acts = Resume(@, act)]
            ELSE [snap EXCEPT
                    !.acts = Suspend(Resume(@, act),
                                     [act EXCEPT !.pc = "request"]),
                    !.requestSent = TRUE]
  /\ UNCHANGED snapOthers

\* the backend has answered the request (stored: 2xx; a request without a
\* token is answered 401), lines 247-261
SnapResponded ==
  /\ snap # Idle
  /\ \E act \in BagToSet(snap.acts), stored \in BOOLEAN :
       /\ act.pc = "request"
       /\ stored => snap.token
       /\ snap' =
            [snap EXCEPT
               !.acts = Resume(@, act),
               !.lastSnapshots =
                  IF stored THEN MapSet(@, act.file, act.content) ELSE @]
  /\ UNCHANGED snapOthers

\* one tick of time passes
SnapTick ==
  /\ snap # Idle
  /\ NoTimerDue
  /\ snap' =
       [snap EXCEPT
          !.timers = { [t EXCEPT !.left = @ - 1] : t \in snap.timers },
          !.sinceAny = [f \in SnapFiles |-> Min(@[f] + 1, Never)],
          !.sinceAccepted = [f \in SnapFiles |-> Min(@[f] + 1, Never)]]
  /\ snap' # snap
  /\ UNCHANGED snapOthers

\* deactivate() disposes of the service; the host then drops the
\* listeners, so no file event reaches it afterwards
SnapDispose ==
  /\ snap # Idle
  /\ ~snap.disposed
  /\ snap' = [dispose(snap) EXCEPT !.disposed = TRUE]
  /\ UNCHANGED snapOthers

SnapInit ==
  /\ \E token \in BOOLEAN : snap = SnapStarted(token)
  /\ gate = Idle /\ extract = Idle /\ approach = Idle
  /\ payload = Idle /\ backend = Idle /\ overlap = Idle /\ connects = Idle
  /\ DetQuiet /\ InferQuiet /\ ConfQuiet /\ HybridQuiet /\ MongoQuiet
  /\ SamplerQuiet /\ ResolverQuiet

SnapNext ==
  \/ \E f \in SnapFiles, processable, enabled \in BOOLEAN :
       SnapFileChanged(f, processable, enabled)
  \/ SnapTimerFires
  \/ \E by \in {"save", "editor"}, processable \in BOOLEAN :
       SnapSavedOrSwitched(EditedFile, by, processable)
  \/ SnapAuthResolved
  \/ SnapDetected
  \/ SnapPredicted
  \/ SnapResponded
  \/ SnapTick
  \/ SnapDispose

SpecSnap == SnapInit /\ [][SnapNext]_vars

PendingFor(f) == { t \in snap.timers : t.file = f }

\* C25: snapshot creation triggered by file-change events is debounced per
\* file: at most one timer is pending per file path, a change event on a
\* file with a pending timer cancels it and starts a new one, so a burst of
\* change events on one file, each less than debounceMs after the previous
\* one, runs createSnapshotsForFile for the file exactly once, debounceMs
\* after the last event; timers of different files never cancel each
\* other, and no timer is pending after dispose().
C25_EveryBurstRunsOnce ==
  \A f \in SnapFiles :
    /\ Cardinality(PendingFor(f)) <= 1
    /\ snap.lastFire[f] # <<>> => snap.lastFire[f][1] = DebounceTicks
    /\ ~snap.disposed =>
         /\ snap.timerRuns[f] \in {snap.burstsAny[f] - 1, snap.burstsAny[f]}
         /\ snap.sinceAny[f] > DebounceTicks
              => snap.timerRuns[f] = snap.burstsAny[f]
    /\ snap.disposed => snap.timers = {}

\* C25, amended: the same of the change events the handler accepts, those
\* on a file that passes shouldProcessFile while snapshots are enabled.
C25_EveryAcceptedBurstRunsOnce ==
  \A f \in SnapFiles :
    /\ Cardinality(PendingFor(f)) <= 1
    /\ PendingFor(f) # {} =>
         /\ MapHas(snap.snapshotTimeouts, f)
         /\ \A t \in PendingFor(f) :
              /\ t.id = snap.snapshotTimeouts[f]
              /\ t.left = DebounceTicks - snap.sinceAccepted[f]
    /\ snap.lastFire[f] # <<>> => snap.lastFire[f][2] = DebounceTicks
    /\ ~snap.disposed =>
         /\ snap.timerRuns[f] \in
              {snap.burstsAccepted[f] - 1, snap.burstsAccepted[f]}
         /\ snap.sinceAccepted[f] > DebounceTicks
              => snap.timerRuns[f] = snap.burstsAccepted[f]
         /\ (snap.timerRuns[f] < snap.burstsAccepted[f])
              <=> PendingFor(f) # {}
    /\ snap.disposed => snap.timers = {}

\* a burst of two accepted changes to routes.js has run once while the
\* timer of app.js, set during the burst, is still pending
C25_Witness ==
  /\ snap # Idle
  /\ snap.accepted["routes.js"] = 2
  /\ snap.burstsAccepted["routes.js"] = 1
  /\ snap.timerRuns["routes.js"] = 1
  /\ snap.lastFire["routes.js"] = <<DebounceTicks, DebounceTicks>>
  /\ PendingFor("app.js") # {}
  /\ snap.timerRuns["app.js"] = 0

\* C30: while the user is not authenticated, no file event - change,
\* create, save or active-editor switch - schedules a snapshot timer, runs
\* createSnapshotsForFile, calls the payload predictor or sends a
\* create-snapshot request to the backend.
C30_NothingWhileUnauthenticated ==
  (snap # Idle /\ ~isAuthenticated(snap.token)) =>
    /\ snap.scheduled = 0
    /\ snap.ranBy = {}
    /\ ~snap.predictCalled
    /\ ~snap.requestSent

\* what holds while unauthenticated: a save or an active-editor switch runs
\* nothing, and no request is answered with a stored snapshot
C30_SaveAndSwitchGated ==
  (snap # Idle /\ ~isAuthenticated(snap.token)) =>
    /\ snap.ranBy \subseteq {"timer"}
    /\ snap.lastSnapshots = <<>>

\* a change event of an unauthenticated user went all the way to a request
C30_ChangeEventReachesBackend ==
  /\ snap # Idle
  /\ ~isAuthenticated(snap.token)
  /\ snap.ranBy = {"timer"}
  /\ snap.predictCalled
  /\ snap.requestSent

(***************************************************************************)
(* The backend's POST /api/snapshots (src/unnamed/part_001:370-434).       *)
(* `backend` holds the RouteSnapshot collection (`stored`, each document   *)
(* with the _id the save gave it), the requests suspended at an await      *)
(* (`reqs`) and, of every request answered, what it found and what it was  *)
(* answered (`answered`).  The collection has no unique index (models/     *)
(* RouteSnapshot.js:100-102), so a save never fails for a duplicate.       *)
(***************************************************************************)
\* requests of one behaviour
MaxPosts == 2

BackendUsers == {"ann", "bob"}
BackendRoutes == {"GET:/a", "GET:/b"}
BackendCodes == {"app.get(\"/a\", h)", "app.get(\"/b\", h)"}

\* crypto.createHash("md5").update(code).digest("hex")
Md5Hex(code) ==
  CASE code = "app.get(\"/a\", h)" -> "93da0b789366edd30b03abcf65336a10"
    [] code = "app.get(\"/b\", h)" -> "a5eda7be43d0856a4f769e91ab118c77"

BackendStarted ==
  [stored |-> {}, reqs |-> {}, answered |-> {}, posts |-> 0]

\* RouteSnapshot.findOne({userId, routeId, codeHash}), lines 390-394
findOneSnapshot(stored, userId, routeId, codeHash) ==
  { d \in stored :
      d.userId = userId /\ d.routeId = routeId /\ d.codeHash = codeHash }

\* the test of line 396
SkipsExisting(existing) == existing # {}

backendOthers ==
  <<detVars, gate, extract, approach, payload, snap, overlap, connects,
    infer, conf, hybrid, mongoVars, sampler, resolver>>

\* an authenticated POST /api/snapshots up to its await of findOne, lines
\* 370-394
BackendPost(userId, routeId, code, collectionId) ==
  /\ backend # Idle
  /\ backend.posts < MaxPosts
  /\ backend' =
       [backend EXCEPT
          !.posts = @ + 1,
          !.reqs = @ \cup {[id |-> backend.posts + 1, pc |-> "findOne",
                            userId |-> userId, routeId |-> routeId,
                            codeHash |-> Md5Hex(code),
                            collectionId |-> collectionId,
                            existed |-> FALSE]}]
  /\ UNCHANGED backendOthers

\* findOne has resolved, lines 396-419: the request answers with the
\* snapshot found or goes on to save a new one
BackendFound ==
  /\ backend # Idle
  /\ \E req \in backend.reqs :
       /\ req.pc = "findOne"
       /\ LET existing == findOneSnapshot(backend.stored, req.userId,
                                          req.routeId, req.codeHash)
          IN  IF SkipsExisting(existing)
                THEN \E existingSnapshot \in existing :
                       backend' =
                         [backend EXCEPT
                            !.reqs = @ \ {req},
                            !.answered =
                               @ \cup {[req |-> req.id, status |-> 200,
                                        existed |-> TRUE,
                                        snapshot |-> existingSnapshot._id]}]
                ELSE backend' =
                       [backend EXCEPT
                          !.reqs = (@ \ {req})
                                     \cup {[req EXCEPT
                                              !.pc = "save",
                                              !.existed = existing # {}]}]
  /\ UNCHANGED backendOthers

\* save has settled, lines 419-431: the document is in the collection, or
\* the save was rejected and the request is answered 400
BackendSaved ==
  /\ backend # Idle
  /\ \E req \in backend.reqs, saved \in BOOLEAN :
       /\ req.pc = "save"
       /\ LET snapshot == [_id |-> req.id, userId |-> req.userId,
                           routeId |-> req.routeId,
                           codeHash |-> req.codeHash]
          IN  backend' =
                IF ~saved
                  THEN [backend EXCEPT
                          !.reqs = @ \ {req},
                          !.answered =
                             @ \cup {[req |-> req.id, status |-> 400,
                                      existed |-> req.existed,
                                      snapshot |-> 0]}]
                ELSE IF req.collectionId
                  THEN [backend EXCEPT
                          !.stored = @ \cup {snapshot},
                          !.reqs = (@ \ {req})
                                     \cup {[req EXCEPT !.pc = "stats"]}]
                ELSE [backend EXCEPT
                        !.stored = @ \cup {snapshot},
                        !.reqs = @ \ {req},
                        !.answered =
                           @ \cup {[req |-> req.id, status |-> 201,
                                    existed |-> req.existed,
                                    snapshot |-> req.id]}]
  /\ UNCHANGED backendOthers

\* the collection's statistics have been brought up to date, or that
\* failed, lines 422-431
BackendStatsUpdated ==
  /\ backend # Idle
  /\ \E req \in backend.reqs, updated \in BOOLEAN :
       /\ req.pc = "stats"
       /\ backend' =
            [backend EXCEPT
               !.reqs = @ \ {req},
               !.answered =
                  @ \cup {[req |-> req.id,
                           status |-> IF updated THEN 201 ELSE 400,
                           existed |-> req.existed,
                           snapshot |-> IF updated THEN req.id ELSE 0]}]
  /\ UNCHANGED backendOthers

BackendInit ==
  /\ backend = BackendStarted
  /\ gate = Idle /\ extract = Idle /\ approach = Idle
  /\ payload = Idle /\ snap = Idle /\ overlap = Idle /\ connects = Idle
  /\ DetQuiet /\ InferQuiet /\ ConfQuiet /\ HybridQuiet /\ MongoQuiet
  /\ SamplerQuiet /\ ResolverQuiet

BackendNext ==
  \/ \E userId \in BackendUsers, routeId \in BackendRoutes,
        code \in BackendCodes, collectionId \in BOOLEAN :
       BackendPost(userId, routeId, code, collectionId)
  \/ BackendFound
  \/ BackendSaved
  \/ BackendStatsUpdated

SpecBackend == BackendInit /\ [][BackendNext]_vars

SameSnapshot(d, e) ==
  d.userId = e.userId /\ d.routeId = e.routeId /\ d.codeHash = e.codeHash

\* C26: the backend never stores two RouteSnapshot documents with the same
\* (userId, routeId, codeHash): a POST /api/snapshots whose code hashes to
\* an already stored snapshot of that user and route returns the existing
\* snapshot and creates nothing, also when two such requests are handled
\* concurrently.
C26_NoIdenticalSnapshots ==
  backend # Idle =>
    /\ \A d, e \in backend.stored : SameSnapshot(d, e) => d = e
    /\ \A a \in backend.answered :
         a.existed =>
           /\ a.status = 200
           /\ \E d \in backend.stored : d._id = a.snapshot /\ d._id # a.req

\* what holds: a request whose findOne found a stored snapshot of the same
\* user, route and hash answers 200 with a stored snapshot and stores
\* nothing, and no request goes on to save after finding one
C26_FoundSnapshotReturned ==
  backend # Idle =>
    /\ \A a \in backend.answered :
         /\ ~a.existed => a.status # 200
         /\ a.status = 200 =>
              /\ \E d \in backend.stored : d._id = a.snapshot
              /\ \A d \in backend.stored : d._id # a.req
    /\ \A req \in backend.reqs : ~req.existed

\* two requests of one user for one route and one code have both been
\* answered 201 and both documents are stored
C26_TwoIdenticalStored ==
  /\ backend # Idle
  /\ \E d, e \in backend.stored : SameSnapshot(d, e) /\ d # e
  /\ \E a, b \in backend.answered :
       a.req # b.req /\ a.status = 201 /\ b.status = 201

(***************************************************************************)
(* Two detectRoutes() calls on one RouteDetector                           *)
(* (src/conduit/src/routeDetection.ts:37-51), as the debounced refresh,    *)
(* the open-panel command and the webview's refresh message start them     *)
(* (src/unnamed/part_006:552-584).  A list is an array with an identity:   *)
(* `heap` maps each array to its elements, `routes` is the array           *)
(* this.routes refers to, a call's `result` is the array it returned and   *)
(* `returned` the elements that array had when it was returned.            *)
(***************************************************************************)
OverlapCallers == {1, 2}

OverlapIdle == [pc |-> "idle", idx |-> 0, result |-> 0, returned |-> <<>>,
                overlapped |-> FALSE]

OverlapStarted(fs) ==
  [files |-> fs, heap |-> <<<<>>>>, routes |-> 1,
   routerPrefixes |-> EmptyMap, controllerImports |-> EmptyMap,
   functionImports |-> EmptyMap,
   calls |-> [c \in OverlapCallers |-> OverlapIdle]]

overlapOthers ==
  <<detVars, gate, extract, approach, payload, snap, backend, connects,
    infer, conf, hybrid, mongoVars, sampler, resolver>>

InProgress(c) == overlap.calls[c].pc \in {"find", "loop"}

\* the detector as parseFileForRoutes sees it
OverlapDetector ==
  DetState(overlap.heap[overlap.routes], overlap.routerPrefixes,
           overlap.controllerImports, overlap.functionImports)

\* await this.parseFileForRoutes(file): the routes are pushed onto the array
\* this.routes refers to
ParsedInto(o, st) ==
  [o EXCEPT !.heap[o.routes] = st.routes,
            !.routerPrefixes = st.routerPrefixes,
            !.controllerImports = st.controllerImports,
            !.functionImports = st.functionImports]

\* return this.routes, line 50
ReturnsRoutes(o, c) ==
  [o EXCEPT !.calls[c].pc = "done",
            !.calls[c].result = o.routes,
            !.calls[c].returned = o.heap[o.routes]]

\* detectRoutes up to its first await, lines 38-44: this.routes is a new
\* array, the three maps are cleared in place
OverlapStart(c) ==
  /\ overlap # Idle
  /\ overlap.calls[c].pc = "idle"
  /\ overlap' =
       [overlap EXCEPT
          !.heap = Append(@, <<>>),
          !.routes = Len(overlap.heap) + 1,
          !.routerPrefixes = EmptyMap,
          !.controllerImports = EmptyMap,
          !.functionImports = EmptyMap,
          !.calls = [d \in OverlapCallers |->
                       IF d = c
                         THEN [OverlapIdle EXCEPT
                                 !.pc = "find",
                                 !.overlapped =
                                    \E e \in OverlapCallers \ {c} :
                                      InProgress(e)]
                       ELSE IF InProgress(d)
                         THEN [overlap.calls[d] EXCEPT !.overlapped = TRUE]
                       ELSE overlap.calls[d]]]
  /\ UNCHANGED overlapOthers

\* findRouteFiles has resolved, lines 44-48: the loop parses the first file
\* and awaits, or there is no file and the call returns
OverlapFilesFound(c) ==
  /\ overlap # Idle
  /\ overlap.calls[c].pc = "find"
  /\ IF Len(overlap.files) = 0
       THEN overlap' = ReturnsRoutes(overlap, c)
       ELSE \E st \in {parseFileForRoutes(OverlapDetector, overlap.files[1])} :
              overlap' = [ParsedInto(overlap, st) EXCEPT
                            !.calls[c].pc = "loop", !.calls[c].idx = 1]
  /\ UNCHANGED overlapOthers

\* the await of parseFileForRoutes resumes, lines 46-50: the next file, or
\* return this.routes
OverlapResume(c) ==
  /\ overlap # Idle
  /\ overlap.calls[c].pc = "loop"
  /\ IF overlap.calls[c].idx < Len(overlap.files)
       THEN \E st \in {parseFileForRoutes(
                         OverlapDetector,
                         overlap.files[overlap.calls[c].idx + 1])} :
              overlap' = [ParsedInto(overlap, st) EXCEPT
                            !.calls[c].idx = @ + 1]
       ELSE overlap' = ReturnsRoutes(overlap, c)
  /\ UNCHANGED overlapOthers

OverlapInit ==
  /\ \E fs \in Workspaces : overlap = OverlapStarted(fs)
  /\ gate = Idle /\ extract = Idle /\ approach = Idle
  /\ payload = Idle /\ snap = Idle /\ backend = Idle /\ connects = Idle
  /\ DetQuiet /\ InferQuiet /\ ConfQuiet /\ HybridQuiet /\ MongoQuiet
  /\ SamplerQuiet /\ ResolverQuiet

OverlapNext ==
  \/ \E c \in OverlapCallers : OverlapStart(c)
  \/ \E c \in OverlapCallers : OverlapFilesFound(c)
  \/ \E c \in OverlapCallers : OverlapResume(c)

SpecOverlap == OverlapInit /\ [][OverlapNext]_vars

OverlapReturned(c) == overlap # Idle /\ overlap.calls[c].pc = "done"

\* C27: if two detectRoutes() calls on one detector overlap, each returns a
\* list that contains every route of the workspace exactly once - the list
\* a single non-overlapping call returns - and the list already returned
\* to one caller is not changed afterwards by the other call.
C27_OverlappingCallsReturnWholeList ==
  \A c \in OverlapCallers :
    OverlapReturned(c) =>
      /\ overlap.calls[c].returned = UndisturbedScan(overlap.files)
      /\ overlap.heap[overlap.calls[c].result] = overlap.calls[c].returned

\* what holds: a call that no other call overlapped returns the list of an
\* undisturbed scan, and that list stays as it was returned
C27_CallsApartReturnWholeList ==
  \A c \in OverlapCallers :
    (OverlapReturned(c) /\ ~overlap.calls[c].overlapped) =>
      /\ overlap.calls[c].returned = UndisturbedScan(overlap.files)
      /\ overlap.heap[overlap.calls[c].result] = overlap.calls[c].returned

\* both calls have returned the same array; the first was handed it before
\* the second had finished pushing onto it
C27_ReturnedListGrewLater ==
  /\ OverlapReturned(1)
  /\ OverlapReturned(2)
  /\ overlap.calls[1].result = overlap.calls[2].result
  /\ overlap.heap[overlap.calls[1].result] # overlap.calls[1].returned
  /\ Len(overlap.calls[1].returned) > 0

(***************************************************************************)
(* connect() calls on the one MongoConnector (src/unnamed/part_004:50-87), *)
(* as extension activation and panel construction start them               *)
(* (part_004:530-533, src/conduit/src/webviewPanel.ts:473-489).            *)
(* `connects` holds the MongoClient objects made so far (`clients`, each   *)
(* "new", "connected" or "closed"), the connector's fields (client and db  *)
(* name a client, 0 is null) and the calls.  disconnect() is not called.   *)
(***************************************************************************)
\* connect() calls of one behaviour
MaxConnects == 3

ConnectCallers == {"activate", "panel"}

ConnectIdle == [pc |-> "idle", awaited |-> 0, result |-> FALSE]

ConnectorNew ==
  [clients |-> <<>>, client |-> 0, db |-> 0, isConnected |-> FALSE,
   calls |-> [c \in ConnectCallers |-> ConnectIdle],
   started |-> 0, overlapped |-> FALSE, returnedTrue |-> FALSE]

connectsOthers ==
  <<detVars, gate, extract, approach, payload, snap, backend, overlap,
    infer, conf, hybrid, mongoVars, sampler, resolver>>

Connecting(c) == connects.calls[c].pc \in {"connect", "ping"}

\* the catch block, lines 80-86, and return false
ConnectFailed(k, c) ==
  [k EXCEPT !.isConnected = FALSE, !.client = 0, !.db = 0,
            !.calls[c] = [pc |-> "done", awaited |-> 0, result |-> FALSE]]

\* lines 72-78: this.db is the database of this.client, and return true
ConnectSucceeded(k, c) ==
  [k EXCEPT !.db = k.client, !.isConnected = TRUE,
            !.calls[c] = [pc |-> "done", awaited |-> 0, result |-> TRUE],
            !.returnedTrue = TRUE]

\* connect() up to its first await, lines 50-66
ConnectStart(c) ==
  /\ connects # Idle
  /\ connects.calls[c].pc \in {"idle", "done"}
  /\ connects.started < MaxConnects
  /\ LET called == [connects EXCEPT
                      !.started = @ + 1,
                      !.overlapped =
                         @ \/ \E d \in ConnectCallers \ {c} : Connecting(d)]
     IN  connects' =
           IF called.isConnected /\ called.client # 0 /\ called.db # 0
             THEN [called EXCEPT
                     !.calls[c] = [pc |-> "done", awaited |-> 0,
                                   result |-> TRUE],
                     !.returnedTrue = TRUE]
             ELSE [called EXCEPT
                     !.clients = Append(@, "new"),
                     !.client = Len(called.clients) + 1,
                     !.calls[c] = [pc |-> "connect",
                                   awaited |-> Len(called.clients) + 1,
                                   result |-> FALSE]]
  /\ UNCHANGED connectsOthers

\* client.connect() has settled, lines 66-69: on success the call pings
\* through this.client, which another call may have replaced or set to null
ConnectSettled(c, ok) ==
  /\ connects # Idle
  /\ connects.calls[c].pc = "connect"
  /\ LET own == connects.calls[c].awaited
         settled == [connects EXCEPT
                       !.clients[own] = IF ok THEN "connected" ELSE @]
     IN  connects' =
           IF ~ok \/ settled.client = 0 THEN ConnectFailed(settled, c)
           ELSE [settled EXCEPT !.calls[c].pc = "ping",
                                !.calls[c].awaited = settled.client]
  /\ UNCHANGED connectsOthers

\* the ping has settled, lines 69-78; a ping through a client that has not
\* connected yet makes it connect, or is rejected
ConnectPinged(c, ok) ==
  /\ connects # Idle
  /\ connects.calls[c].pc = "ping"
  /\ LET pinged == connects.calls[c].awaited
         settled == [connects EXCEPT
                       !.clients[pinged] = IF ok THEN "connected" ELSE @]
     IN  connects' =
           IF ~ok \/ settled.client = 0 THEN ConnectFailed(settled, c)
           ELSE ConnectSucceeded(settled, c)
  /\ UNCHANGED connectsOthers

ConnectInit ==
  /\ connects = ConnectorNew
  /\ gate = Idle /\ extract = Idle /\ approach = Idle
  /\ payload = Idle /\ snap = Idle /\ backend = Idle /\ overlap = Idle
  /\ DetQuiet /\ InferQuiet /\ ConfQuiet /\ HybridQuiet /\ MongoQuiet
  /\ SamplerQuiet /\ ResolverQuiet

ConnectNext ==
  \/ \E c \in ConnectCallers : ConnectStart(c)
  \/ \E c \in ConnectCallers, ok \in BOOLEAN : ConnectSettled(c, ok)
  \/ \E c \in ConnectCallers, ok \in BOOLEAN : ConnectPinged(c, ok)

SpecConnect == ConnectInit /\ [][ConnectNext]_vars

\* isAvailable(), lines 108-110
ConnectorAvailable == connects.isConnected /\ connects.db # 0

\* connected clients that are neither the connector's client nor closed
\* (a client that never connected holds nothing to close)
LeakedClients ==
  { i \in 1..Len(connects.clients) :
      connects.clients[i] = "connected" /\ i # connects.client }

NoConnectInProgress == \A c \in ConnectCallers : ~Connecting(c)

\* C28: once a connect() call has returned true and disconnect() has not
\* been called, isAvailable() stays true: a second connect() that overlaps
\* the first and fails cannot reset the connector to unavailable, and every
\* client an overlapping connect() created is the connector's current
\* client or has been closed.
C28_ConnectedStaysAvailable ==
  connects # Idle =>
    /\ connects.returnedTrue => ConnectorAvailable
    /\ NoConnectInProgress => LeakedClients = {}

\* what holds: when no connect() call began while another was in progress,
\* the connector stays available once a call has returned true, on the
\* database of its current client, which is connected
C28_ConnectedStaysAvailableApart ==
  (connects # Idle /\ ~connects.overlapped /\ connects.returnedTrue) =>
    /\ ConnectorAvailable
    /\ connects.db = connects.client
    /\ connects.clients[connects.client] = "connected"

\* connect() returned true to one caller, the overlapping call failed and
\* the connector is unavailable
C28_ResetAfterTrue ==
  /\ connects # Idle
  /\ connects.returnedTrue
  /\ NoConnectInProgress
  /\ ~ConnectorAvailable
  /\ connects.calls["activate"].result # connects.calls["panel"].result

\* both overlapping calls returned true and the first call's client is
\* connected, unreferenced and not closed
C28_ClientLeaked ==
  /\ connects # Idle
  /\ NoConnectInProgress
  /\ connects.calls["activate"].result
  /\ connects.calls["panel"].result
  /\ LeakedClients # {}

\* C29: hasMongoData is true only if sample data was actually found: in
\* every returned prediction hasMongoData = true implies that
\* collectionName is defined and sampleDocuments is non-empty; it is false
\* when the connection is available but no candidate collection exists or
\* holds documents, or when the database retrieval failed.
C29_HasMongoDataOnlyWithSamples ==
  (HybridReturned /\ hybrid.result.hasMongoData) =>
     /\ IsSome(hybrid.result.collectionName)
     /\ hybrid.result.sampleDocuments # <<>>

\* what holds: a prediction of the try block has hasMongoData exactly when
\* the connector was available at the call, and one with sample data found
\* through an available connector has hasMongoData = true
C29_HasMongoDataIsConnection ==
  (HybridReturned /\ ~hybrid.fellBack) =>
     /\ hybrid.result.hasMongoData = hybrid.hasMongoConnection
     /\ hybrid.result.sampleDocuments # <<>> => hybrid.result.hasMongoData

\* the connector was available, getMongoData returned null and the
\* returned prediction has hasMongoData = true without a collection
C29_TrueWithoutData ==
  /\ HybridReturned
  /\ hybrid.hasMongoConnection
  /\ hybrid.mongoData = None
  /\ hybrid.result.hasMongoData
  /\ hybrid.result.collectionName = None
  /\ hybrid.result.sampleDocuments = <<>>

====
